---- MODULE Spec2Model ----
(***************************************************************************)
(* wasmcp/tools: middleware handlers composed into a chain of              *)
(* responsibility.  Every handler exports handle_request and imports the   *)
(* same interface as `downstream`; a top-level request enters the head of  *)
(* the chain and is evaluated depth-first.  The model keeps the call stack *)
(* of one top-level request: every frame is one handle_request invocation  *)
(* with the downstream requests it issued (calls) and the outcomes it got  *)
(* back (got).  A handler is an operator from its frame to its next step:  *)
(* a downstream call or its return value.                                  *)
(*                                                                         *)
(* Numbers are f64 values restricted to integers on which the arithmetic   *)
(* of the code is exact; texts are tagged records (Txt) so that formatting *)
(* and parsing are modelled by what they accept and reject.                *)
(***************************************************************************)
EXTENDS Integers, Sequences, FiniteSets, TLC

VARIABLES chain, terminal, stack, trace, last, previous, relay

vars == <<chain, terminal, stack, trace, last, previous, relay>>

\* ------------------------------------------------------------------------
\* Bounds of the model
\* ------------------------------------------------------------------------
MaxWaypoints == 3

\* ------------------------------------------------------------------------
\* Protocol data: texts, content blocks, results, responses, requests
\* ------------------------------------------------------------------------
Min(S) == CHOOSE x \in S : \A y \in S : x <= y

\* A text: t is its form, v the number it prints (if any), s a tool or
\* parameter name it mentions, segs the segments of a route record.
Txt(t, v, s) == [t |-> t, v |-> v, s |-> s, segs |-> <<>>]

NoText == Txt("", 0, "")

\* f64::to_string of a number
NumText(n) == Txt("num", n, "")

\* ContentBlock::Text with TextData::Text (inline), TextData::Stream, or
\* another ContentBlock variant
InlineBlock(text) == [type |-> "text_inline", text |-> text]

StreamBlock == [type |-> "text_stream", text |-> NoText]

ImageBlock == [type |-> "image", text |-> NoText]

\* CallToolResult: is_error is Option<bool>
ToolResult(flag, content) == [is_error |-> flag, content |-> content]

NoResult == ToolResult("none", <<>>)

success_result(text) == ToolResult("none", <<InlineBlock(text)>>)

error_result(message) == ToolResult("true", <<InlineBlock(message)>>)

\* Result<ServerResponse, ErrorCode>
Outcome(ok, kind, tools, cursor, meta, result, info) ==
    [ok |-> ok, kind |-> kind, tools |-> tools, next_cursor |-> cursor,
     meta |-> meta, result |-> result, info |-> info]

OkList(tools, cursor, meta) == Outcome(TRUE, "list", tools, cursor, meta, NoResult, "")

OkCall(result) == Outcome(TRUE, "call", <<>>, "None", "None", result, "")

OkOther == Outcome(TRUE, "other", <<>>, "None", "None", NoResult, "")

ErrMethodNotFound(info) ==
    Outcome(FALSE, "method_not_found", <<>>, "None", "None", NoResult, info)

ErrOther(info) == Outcome(FALSE, "internal_error", <<>>, "None", "None", NoResult, info)

NoOutcome == Outcome(FALSE, "", <<>>, "None", "None", NoResult, "")

Tool(name, schema) == [name |-> name, schema |-> schema]

\* Option<String> arguments: None, a string that is not JSON, or a JSON
\* object with numeric fields num and at most one array field.
Args(form, num, arr, numbers, waypoints) ==
    [form |-> form, num |-> num, arr |-> arr, numbers |-> numbers,
     waypoints |-> waypoints]

NoFields == [n \in {} |-> 0]

NoArgs == Args("none", NoFields, "none", <<>>, <<>>)

BadJson == Args("bad", NoFields, "none", <<>>, <<>>)

Obj(num) == Args("obj", num, "none", <<>>, <<>>)

NumbersObj(numbers) == Args("obj", NoFields, "numbers", numbers, <<>>)

WaypointsObj(waypoints) == Args("obj", NoFields, "waypoints", <<>>, waypoints)

Request(kind, name, args) == [kind |-> kind, name |-> name, args |-> args]

ReqList == Request("list", "", NoArgs)

ReqCall(name, args) == Request("call", name, args)

ReqPing == Request("ping", "", NoArgs)

\* ------------------------------------------------------------------------
\* Frames and steps
\* ------------------------------------------------------------------------
Frame(pos, req, id, ctx) ==
    [pos |-> pos, req |-> req, id |-> id, ctx |-> ctx, calls |-> <<>>, got |-> <<>>]

NoFrame == Frame(0, ReqPing, 0, "")

CallRec(from, to, req, id, ctx) ==
    [from |-> from, to |-> to, req |-> req, id |-> id, ctx |-> ctx]

\* A downstream call that regenerates the RequestId instead of passing it on
Call_with_fresh_id(to, req, id, ctx) ==
    [op |-> "call", to |-> to, req |-> req, id |-> id + 1, ctx |-> ctx, out |-> NoOutcome]

\* downstream::handle_request(ctx, (&req, &id), client_stream)
Call(to, req, id, ctx) ==
    [op |-> "call", to |-> to, req |-> req, id |-> id, ctx |-> ctx, out |-> NoOutcome]

Ret(out) == [op |-> "ret", to |-> 0, req |-> ReqPing, id |-> 0, ctx |-> "", out |-> out]

\* Result<f64, String> of the helpers
Val(v) == [ok |-> TRUE, v |-> v, msg |-> NoText]

Fail(msg) == [ok |-> FALSE, v |-> 0, msg |-> msg]

\* A downstream reference that is bound to the head of the chain
Downstream_bound_to_head(pos) == 1

\* The component linked as `downstream` of the handler at position pos
Downstream(pos) == pos + 1

\* serde_json parsing of the arguments followed by json.get(name).as_f64()
\* for each required field, in order: the first failure is reported.
RECURSIVE FirstMissing(_, _)
FirstMissing(args, names) ==
    IF names = <<>> THEN ""
    ELSE IF Head(names) \in DOMAIN args.num THEN FirstMissing(args, Tail(names))
    ELSE Head(names)

ParseFields(args, names) ==
    IF args.form = "none" THEN Fail(Txt("missing_arguments", 0, ""))
    ELSE IF args.form = "bad" THEN Fail(Txt("invalid_json", 0, ""))
    ELSE IF FirstMissing(args, names) # ""
         THEN Fail(Txt("missing_or_invalid_parameter", 0, FirstMissing(args, names)))
    ELSE Val(0)

\* f64 arithmetic on the integers where it is exact
RECURSIVE SumSeq(_)
SumSeq(q) == IF q = <<>> THEN 0 ELSE Head(q) + SumSeq(Tail(q))

Div(a, b) == CHOOSE q \in -(a * a + 1)..(a * a + 1) : q * b = a

Sqrt(x) == CHOOSE r \in 0..x : r * r = x

\* ------------------------------------------------------------------------
\* distance-calculator
\* ------------------------------------------------------------------------
DistanceTool == Tool("distance", "x1,y1,x2,y2")

\* A merge in which the handler's own tool overrides a downstream tool of the
\* same name
DistanceCalculator_handle_tools_list_overriding(f) ==
    IF Len(f.got) = 0 THEN Call(Downstream(f.pos), ReqList, f.id, f.ctx)
    ELSE LET downstream_response == f.got[1] IN
         IF ~downstream_response.ok THEN Ret(downstream_response)
         ELSE LET tools == IF downstream_response.kind = "list"
                           THEN SelectSeq(downstream_response.tools,
                                          LAMBDA t : t.name # DistanceTool.name)
                           ELSE <<>>
              IN Ret(OkList(Append(tools, DistanceTool), "None", "None"))

DistanceCalculator_handle_tools_list(f) ==
    IF Len(f.got) = 0 THEN Call(Downstream(f.pos), ReqList, f.id, f.ctx)
    ELSE LET downstream_response == f.got[1] IN
         IF ~downstream_response.ok THEN Ret(downstream_response)
         ELSE LET tools == IF downstream_response.kind = "list"
                           THEN downstream_response.tools ELSE <<>>
              IN Ret(OkList(Append(tools, DistanceTool), "None", "None"))

parse_distance_args(arguments) == ParseFields(arguments, <<"x1", "y1", "x2", "y2">>)

\* The first inline text block found anywhere in the content is parsed
\* (text.parse::<f64>(), no trimming).
DistanceCalculator_extract_number_from_result(result) ==
    IF result.is_error = "true" THEN Fail(Txt("tool_call_returned_error", 0, ""))
    ELSE LET inline == {i \in 1..Len(result.content) :
                            result.content[i].type = "text_inline"}
         IN IF inline = {} THEN Fail(Txt("no_text_content", 0, ""))
            ELSE LET text == result.content[Min(inline)].text IN
                 IF text.t = "num" THEN Val(text.v)
                 ELSE Fail(Txt("failed_to_parse", 0, ""))

\* The match on the outcome of downstream::handle_request
DistanceCalculator_call_downstream_tool(name, o) ==
    IF o.ok /\ o.kind = "call" THEN DistanceCalculator_extract_number_from_result(o.result)
    ELSE IF ~o.ok /\ o.kind = "method_not_found"
         THEN Fail(Txt("not_found_must_come_after", 0, name))
    ELSE IF ~o.ok THEN Fail(Txt("error_calling", 0, name))
    ELSE Fail(Txt("unexpected_response_type", 0, ""))

\* A distance call that adds the squares itself and issues no add call
handle_distance_call_adding_locally(f) ==
    LET parsed == parse_distance_args(f.req.args)
        k == Len(f.got)
    IN IF ~parsed.ok THEN Ret(OkCall(error_result(parsed.msg)))
       ELSE
       LET a == f.req.args.num
           dx == a.x2 - a.x1
           dy == a.y2 - a.y1
           dx_squared == DistanceCalculator_call_downstream_tool("square", f.got[1])
           dy_squared == DistanceCalculator_call_downstream_tool("square", f.got[2])
           distance == DistanceCalculator_call_downstream_tool("square_root", f.got[3])
       IN IF k = 0
          THEN Call(Downstream(f.pos), ReqCall("square", Obj([x |-> dx])), f.id, f.ctx)
          ELSE IF ~dx_squared.ok THEN Ret(OkCall(error_result(dx_squared.msg)))
          ELSE IF k = 1
          THEN Call(Downstream(f.pos), ReqCall("square", Obj([x |-> dy])), f.id, f.ctx)
          ELSE IF ~dy_squared.ok THEN Ret(OkCall(error_result(dy_squared.msg)))
          ELSE IF k = 2
          THEN Call(Downstream(f.pos),
                    ReqCall("square_root", Obj([x |-> dx_squared.v + dy_squared.v])),
                    f.id, f.ctx)
          ELSE IF ~distance.ok THEN Ret(OkCall(error_result(distance.msg)))
          ELSE Ret(OkCall(success_result(NumText(distance.v))))

handle_distance_call(f) ==
    LET parsed == parse_distance_args(f.req.args)
        k == Len(f.got)
    IN IF ~parsed.ok THEN Ret(OkCall(error_result(parsed.msg)))
       ELSE
       LET a == f.req.args.num
           dx == a.x2 - a.x1
           dy == a.y2 - a.y1
           dx_squared == DistanceCalculator_call_downstream_tool("square", f.got[1])
           dy_squared == DistanceCalculator_call_downstream_tool("square", f.got[2])
           sum == DistanceCalculator_call_downstream_tool("add", f.got[3])
           distance == DistanceCalculator_call_downstream_tool("square_root", f.got[4])
       IN IF k = 0
          THEN Call(Downstream(f.pos), ReqCall("square", Obj([x |-> dx])), f.id, f.ctx)
          ELSE IF ~dx_squared.ok THEN Ret(OkCall(error_result(dx_squared.msg)))
          ELSE IF k = 1
          THEN Call(Downstream(f.pos), ReqCall("square", Obj([x |-> dy])), f.id, f.ctx)
          ELSE IF ~dy_squared.ok THEN Ret(OkCall(error_result(dy_squared.msg)))
          ELSE IF k = 2
          THEN Call(Downstream(f.pos),
                    ReqCall("add", Obj([a |-> dx_squared.v, b |-> dy_squared.v])),
                    f.id, f.ctx)
          ELSE IF ~sum.ok THEN Ret(OkCall(error_result(sum.msg)))
          ELSE IF k = 3
          THEN Call(Downstream(f.pos), ReqCall("square_root", Obj([x |-> sum.v])),
                    f.id, f.ctx)
          ELSE IF ~distance.ok THEN Ret(OkCall(error_result(distance.msg)))
          ELSE Ret(OkCall(success_result(NumText(distance.v))))

\* Delegation of a request the handler does not own
DistanceCalculator_delegate(f) ==
    IF Len(f.got) = 0 THEN Call(Downstream(f.pos), f.req, f.id, f.ctx)
    ELSE Ret(f.got[1])

\* A handler that lets a 'distance' call it cannot parse pass downstream
DistanceCalculator_handle_request_yielding(f) ==
    IF f.req.kind = "list" THEN DistanceCalculator_handle_tools_list(f)
    ELSE IF f.req.kind = "call" /\ f.req.name = "distance"
              /\ parse_distance_args(f.req.args).ok
    THEN handle_distance_call(f)
    ELSE DistanceCalculator_delegate(f)

DistanceCalculator_handle_request(f) ==
    IF f.req.kind = "list" THEN DistanceCalculator_handle_tools_list(f)
    ELSE IF f.req.kind = "call" /\ f.req.name = "distance" THEN handle_distance_call(f)
    ELSE DistanceCalculator_delegate(f)

\* ------------------------------------------------------------------------
\* pythagorean-middleware
\* ------------------------------------------------------------------------
PythagoreanTool == Tool("pythagorean", "a,b")

Pythagorean_handle_tools_list(f) ==
    IF Len(f.got) = 0 THEN Call(Downstream(f.pos), ReqList, f.id, f.ctx)
    ELSE LET d == f.got[1] IN
         IF d.ok /\ d.kind = "list"
         THEN Ret(OkList(Append(d.tools, PythagoreanTool), d.next_cursor, d.meta))
         ELSE IF ~d.ok /\ d.kind = "method_not_found"
         THEN Ret(OkList(<<PythagoreanTool>>, "None", "None"))
         ELSE Ret(OkList(<<PythagoreanTool>>, "None", "None"))

parse_pythagorean_args(arguments) == ParseFields(arguments, <<"a", "b">>)

\* Only the first content block is looked at; the text is trimmed.
Pythagorean_extract_number_from_result(result) ==
    IF result.is_error = "true" THEN Fail(Txt("tool_returned_an_error", 0, ""))
    ELSE IF Len(result.content) > 0 /\ result.content[1].type \in {"text_inline", "text_stream"}
    THEN IF result.content[1].type = "text_inline"
         THEN LET text == result.content[1].text IN
              IF text.t \in {"num", "padded_num"} THEN Val(text.v)
              ELSE Fail(Txt("failed_to_parse", 0, ""))
         ELSE Fail(Txt("text_is_a_stream", 0, ""))
    ELSE Fail(Txt("no_text_content", 0, ""))

Pythagorean_call_downstream_tool(name, o) ==
    IF o.ok /\ o.kind = "call" THEN Pythagorean_extract_number_from_result(o.result)
    ELSE IF o.ok THEN Fail(Txt("unexpected_response_type", 0, name))
    ELSE IF o.kind = "method_not_found"
         THEN Fail(Txt("not_found_must_come_after", 0, name))
    ELSE Fail(Txt("error_calling", 0, name))

\* A pythagorean call that squares b before a
handle_pythagorean_call_b_first(f) ==
    LET parsed == parse_pythagorean_args(f.req.args)
        k == Len(f.got)
    IN IF ~parsed.ok THEN Ret(OkCall(error_result(parsed.msg)))
       ELSE
       LET b_squared == Pythagorean_call_downstream_tool("square", f.got[1])
           a_squared == Pythagorean_call_downstream_tool("square", f.got[2])
           sum == a_squared.v + b_squared.v
           hypotenuse == Pythagorean_call_downstream_tool("square_root", f.got[3])
       IN IF k = 0
          THEN Call(Downstream(f.pos), ReqCall("square", Obj([x |-> f.req.args.num.b])),
                    f.id, f.ctx)
          ELSE IF ~b_squared.ok THEN Ret(OkCall(error_result(b_squared.msg)))
          ELSE IF k = 1
          THEN Call(Downstream(f.pos), ReqCall("square", Obj([x |-> f.req.args.num.a])),
                    f.id, f.ctx)
          ELSE IF ~a_squared.ok THEN Ret(OkCall(error_result(a_squared.msg)))
          ELSE IF k = 2
          THEN Call(Downstream(f.pos), ReqCall("square_root", Obj([x |-> sum])),
                    f.id, f.ctx)
          ELSE IF hypotenuse.ok THEN Ret(OkCall(success_result(NumText(hypotenuse.v))))
          ELSE Ret(OkCall(error_result(hypotenuse.msg)))

handle_pythagorean_call(f) ==
    LET parsed == parse_pythagorean_args(f.req.args)
        k == Len(f.got)
    IN IF ~parsed.ok THEN Ret(OkCall(error_result(parsed.msg)))
       ELSE
       LET a_squared == Pythagorean_call_downstream_tool("square", f.got[1])
           b_squared == Pythagorean_call_downstream_tool("square", f.got[2])
           sum == a_squared.v + b_squared.v
           hypotenuse == Pythagorean_call_downstream_tool("square_root", f.got[3])
       IN IF k = 0
          THEN Call(Downstream(f.pos), ReqCall("square", Obj([x |-> f.req.args.num.a])),
                    f.id, f.ctx)
          ELSE IF ~a_squared.ok THEN Ret(OkCall(error_result(a_squared.msg)))
          ELSE IF k = 1
          THEN Call(Downstream(f.pos), ReqCall("square", Obj([x |-> f.req.args.num.b])),
                    f.id, f.ctx)
          ELSE IF ~b_squared.ok THEN Ret(OkCall(error_result(b_squared.msg)))
          ELSE IF k = 2
          THEN Call(Downstream(f.pos), ReqCall("square_root", Obj([x |-> sum])),
                    f.id, f.ctx)
          ELSE IF hypotenuse.ok THEN Ret(OkCall(success_result(NumText(hypotenuse.v))))
          ELSE Ret(OkCall(error_result(hypotenuse.msg)))

\* A delegation that drops the arguments of the request
Pythagorean_delegate_dropping_arguments(f) ==
    IF Len(f.got) = 0
    THEN Call(Downstream(f.pos), Request(f.req.kind, f.req.name, NoArgs), f.id, f.ctx)
    ELSE Ret(f.got[1])

Pythagorean_delegate(f) ==
    IF Len(f.got) = 0 THEN Call(Downstream(f.pos), f.req, f.id, f.ctx)
    ELSE Ret(f.got[1])

Pythagorean_handle_request(f) ==
    IF f.req.kind = "list" THEN Pythagorean_handle_tools_list(f)
    ELSE IF f.req.kind = "call" /\ f.req.name = "pythagorean" THEN handle_pythagorean_call(f)
    ELSE Pythagorean_delegate(f)

\* ------------------------------------------------------------------------
\* variance-middleware
\* ------------------------------------------------------------------------
VarianceTool == Tool("variance", "numbers")

\* A merge that puts the handler's own tool before downstream's
Variance_handle_tools_list_own_first(f) ==
    IF Len(f.got) = 0 THEN Call(Downstream(f.pos), ReqList, f.id, f.ctx)
    ELSE LET downstream_response == f.got[1] IN
         IF ~downstream_response.ok THEN Ret(downstream_response)
         ELSE LET tools == IF downstream_response.kind = "list"
                           THEN downstream_response.tools ELSE <<>>
              IN Ret(OkList(<<VarianceTool>> \o tools, "None", "None"))

Variance_handle_tools_list(f) ==
    IF Len(f.got) = 0 THEN Call(Downstream(f.pos), ReqList, f.id, f.ctx)
    ELSE LET downstream_response == f.got[1] IN
         IF ~downstream_response.ok THEN Ret(downstream_response)
         ELSE LET tools == IF downstream_response.kind = "list"
                           THEN downstream_response.tools ELSE <<>>
              IN Ret(OkList(Append(tools, VarianceTool), "None", "None"))

\* json.get("numbers").as_array(), every element as_f64
parse_numbers(arguments) ==
    IF arguments.form = "none" THEN Fail(Txt("missing_arguments", 0, ""))
    ELSE IF arguments.form = "bad" THEN Fail(Txt("invalid_json", 0, ""))
    ELSE IF arguments.arr # "numbers"
         THEN Fail(Txt("missing_or_invalid_parameter", 0, "numbers"))
    ELSE Val(0)

Variance_extract_number_from_result(result) ==
    IF result.is_error = "true" THEN Fail(Txt("tool_call_returned_error", 0, ""))
    ELSE LET inline == {i \in 1..Len(result.content) :
                            result.content[i].type = "text_inline"}
         IN IF inline = {} THEN Fail(Txt("no_text_content", 0, ""))
            ELSE LET text == result.content[Min(inline)].text IN
                 IF text.t = "num" THEN Val(text.v)
                 ELSE Fail(Txt("failed_to_parse", 0, ""))

\* The match on the outcome of the nested mean call
call_mean_tool(o) ==
    IF o.ok /\ o.kind = "call" THEN Variance_extract_number_from_result(o.result)
    ELSE IF ~o.ok /\ o.kind = "method_not_found"
         THEN Fail(Txt("not_found_must_come_after", 0, "mean"))
    ELSE IF ~o.ok THEN Fail(Txt("error_calling", 0, "mean"))
    ELSE Fail(Txt("unexpected_response_type", 0, ""))

\* A variance that looks at the array only after asking for its mean
handle_variance_call_checking_late(f) ==
    LET parsed == parse_numbers(f.req.args)
        numbers == f.req.args.numbers
    IN IF ~parsed.ok THEN Ret(OkCall(error_result(parsed.msg)))
       ELSE IF Len(f.got) = 0
       THEN Call(Downstream(f.pos), ReqCall("mean", NumbersObj(numbers)), f.id, f.ctx)
       ELSE IF numbers = <<>>
       THEN Ret(OkCall(error_result(Txt("cannot_calculate_variance_of_empty_array", 0, ""))))
       ELSE LET mean == call_mean_tool(f.got[1]) IN
            IF ~mean.ok THEN Ret(OkCall(error_result(mean.msg)))
            ELSE LET squared_diffs == [i \in 1..Len(numbers) |->
                                          (numbers[i] - mean.v) * (numbers[i] - mean.v)]
                     variance == Div(SumSeq(squared_diffs), Len(squared_diffs))
                 IN Ret(OkCall(success_result(NumText(variance))))

handle_variance_call(f) ==
    LET parsed == parse_numbers(f.req.args)
        numbers == f.req.args.numbers
    IN IF ~parsed.ok THEN Ret(OkCall(error_result(parsed.msg)))
       ELSE IF numbers = <<>>
       THEN Ret(OkCall(error_result(Txt("cannot_calculate_variance_of_empty_array", 0, ""))))
       ELSE IF Len(f.got) = 0
       THEN Call(Downstream(f.pos), ReqCall("mean", NumbersObj(numbers)), f.id, f.ctx)
       ELSE LET mean == call_mean_tool(f.got[1]) IN
            IF ~mean.ok THEN Ret(OkCall(error_result(mean.msg)))
            ELSE LET squared_diffs == [i \in 1..Len(numbers) |->
                                          (numbers[i] - mean.v) * (numbers[i] - mean.v)]
                     variance == Div(SumSeq(squared_diffs), Len(squared_diffs))
                 IN Ret(OkCall(success_result(NumText(variance))))

\* A delegation that reports downstream's error as a tool-level error result
Variance_delegate_wrapping_errors(f) ==
    IF Len(f.got) = 0 THEN Call(Downstream(f.pos), f.req, f.id, f.ctx)
    ELSE IF f.got[1].ok THEN Ret(f.got[1])
    ELSE Ret(OkCall(error_result(Txt("error_calling", 0, f.req.name))))

Variance_delegate(f) ==
    IF Len(f.got) = 0 THEN Call(Downstream(f.pos), f.req, f.id, f.ctx)
    ELSE Ret(f.got[1])

Variance_handle_request(f) ==
    IF f.req.kind = "list" THEN Variance_handle_tools_list(f)
    ELSE IF f.req.kind = "call" /\ f.req.name = "variance" THEN handle_variance_call(f)
    ELSE Variance_delegate(f)

\* ------------------------------------------------------------------------
\* stddev-middleware
\* ------------------------------------------------------------------------
StandardDeviationTool == Tool("standard_deviation", "numbers")

StdDevAliasTool == Tool("stddev", "numbers (alias)")

StdDev_handle_tools_list(f) ==
    IF Len(f.got) = 0 THEN Call(Downstream(f.pos), ReqList, f.id, f.ctx)
    ELSE LET downstream_response == f.got[1] IN
         IF ~downstream_response.ok THEN Ret(downstream_response)
         ELSE LET tools == IF downstream_response.kind = "list"
                           THEN downstream_response.tools ELSE <<>>
              IN Ret(OkList(tools \o <<StandardDeviationTool, StdDevAliasTool>>,
                            "None", "None"))

StdDev_extract_number_from_result(result) ==
    IF result.is_error = "true" THEN Fail(Txt("tool_call_returned_error", 0, ""))
    ELSE LET inline == {i \in 1..Len(result.content) :
                            result.content[i].type = "text_inline"}
         IN IF inline = {} THEN Fail(Txt("no_text_content", 0, ""))
            ELSE LET text == result.content[Min(inline)].text IN
                 IF text.t = "num" THEN Val(text.v)
                 ELSE Fail(Txt("failed_to_parse", 0, ""))

\* A variance call that reports MethodNotFound like any other protocol error
call_variance_tool_without_not_found_arm(o) ==
    IF o.ok /\ o.kind = "call" THEN StdDev_extract_number_from_result(o.result)
    ELSE IF ~o.ok THEN Fail(Txt("error_calling", 0, "variance"))
    ELSE Fail(Txt("unexpected_response_type", 0, ""))

call_variance_tool(o) ==
    IF o.ok /\ o.kind = "call" THEN StdDev_extract_number_from_result(o.result)
    ELSE IF ~o.ok /\ o.kind = "method_not_found"
         THEN Fail(Txt("not_found_must_come_after", 0, "variance"))
    ELSE IF ~o.ok THEN Fail(Txt("error_calling", 0, "variance"))
    ELSE Fail(Txt("unexpected_response_type", 0, ""))

call_square_root_tool(o) ==
    IF o.ok /\ o.kind = "call" THEN StdDev_extract_number_from_result(o.result)
    ELSE IF ~o.ok /\ o.kind = "method_not_found"
         THEN Fail(Txt("not_found_must_come_after", 0, "square_root"))
    ELSE IF ~o.ok THEN Fail(Txt("error_calling", 0, "square_root"))
    ELSE Fail(Txt("unexpected_response_type", 0, ""))

\* The arguments are passed on to variance as they came, unparsed.
\* A stddev call that answers with the variance and issues no square_root call
handle_stddev_call_skipping_square_root(f) ==
    LET k == Len(f.got)
        variance == call_variance_tool(f.got[1])
    IN IF k = 0
       THEN Call(Downstream(f.pos), ReqCall("variance", f.req.args), f.id, f.ctx)
       ELSE IF ~variance.ok THEN Ret(OkCall(error_result(variance.msg)))
       ELSE Ret(OkCall(success_result(NumText(variance.v))))

\* A stddev call that hands a protocol error of the variance call to its caller
handle_stddev_call_escalating(f) ==
    LET k == Len(f.got)
        variance == call_variance_tool(f.got[1])
        stddev == call_square_root_tool(f.got[2])
    IN IF k = 0
       THEN Call(Downstream(f.pos), ReqCall("variance", f.req.args), f.id, f.ctx)
       ELSE IF ~f.got[1].ok THEN Ret(f.got[1])
       ELSE IF ~variance.ok THEN Ret(OkCall(error_result(variance.msg)))
       ELSE IF k = 1
       THEN Call(Downstream(f.pos), ReqCall("square_root", Obj([x |-> variance.v])),
                 f.id, f.ctx)
       ELSE IF ~stddev.ok THEN Ret(OkCall(error_result(stddev.msg)))
       ELSE Ret(OkCall(success_result(NumText(stddev.v))))

handle_stddev_call(f) ==
    LET k == Len(f.got)
        variance == call_variance_tool(f.got[1])
        stddev == call_square_root_tool(f.got[2])
    IN IF k = 0
       THEN Call(Downstream(f.pos), ReqCall("variance", f.req.args), f.id, f.ctx)
       ELSE IF ~variance.ok THEN Ret(OkCall(error_result(variance.msg)))
       ELSE IF k = 1
       THEN Call(Downstream(f.pos), ReqCall("square_root", Obj([x |-> variance.v])),
                 f.id, f.ctx)
       ELSE IF ~stddev.ok THEN Ret(OkCall(error_result(stddev.msg)))
       ELSE Ret(OkCall(success_result(NumText(stddev.v))))

StdDev_delegate(f) ==
    IF Len(f.got) = 0 THEN Call(Downstream(f.pos), f.req, f.id, f.ctx)
    ELSE Ret(f.got[1])

\* A handler that lists the alias 'stddev' but answers 'standard_deviation' only
StdDev_handle_request_without_alias(f) ==
    IF f.req.kind = "list" THEN StdDev_handle_tools_list(f)
    ELSE IF f.req.kind = "call" /\ f.req.name = "standard_deviation"
         THEN handle_stddev_call(f)
    ELSE StdDev_delegate(f)

StdDev_handle_request(f) ==
    IF f.req.kind = "list" THEN StdDev_handle_tools_list(f)
    ELSE IF f.req.kind = "call" /\ f.req.name \in {"standard_deviation", "stddev"}
         THEN handle_stddev_call(f)
    ELSE StdDev_delegate(f)

\* ------------------------------------------------------------------------
\* route-optimizer
\* ------------------------------------------------------------------------
RouteTool == Tool("analyze_route", "waypoints")

RouteOptimizer_handle_tools_list(f) ==
    IF Len(f.got) = 0 THEN Call(Downstream(f.pos), ReqList, f.id, f.ctx)
    ELSE LET d == f.got[1] IN
         IF d.ok /\ d.kind = "list"
         THEN Ret(OkList(Append(d.tools, RouteTool), d.next_cursor, d.meta))
         ELSE IF ~d.ok /\ d.kind = "method_not_found"
         THEN Ret(OkList(<<RouteTool>>, "None", "None"))
         ELSE Ret(OkList(<<RouteTool>>, "None", "None"))

\* json.get("waypoints").as_array()
parse_waypoints(arguments) ==
    IF arguments.form = "none" THEN Fail(Txt("missing_arguments", 0, ""))
    ELSE IF arguments.form = "bad" THEN Fail(Txt("invalid_json", 0, ""))
    ELSE IF arguments.arr # "waypoints"
         THEN Fail(Txt("missing_or_invalid_parameter", 0, "waypoints"))
    ELSE Val(0)

\* Texts of JSON documents
GeoDistanceText(km) == Txt("geo_distance", km, "")

GeoBearingText(deg) == Txt("geo_bearing", deg, "")

JsonEmpty == Txt("json_empty", 0, "")

RouteText(total, segments) == [t |-> "route", v |-> total, s |-> "", segs |-> segments]

\* serde_json::from_str succeeds
IsJson(text) ==
    text.t \in {"num", "padded_num", "json_empty", "geo_distance", "geo_bearing", "route"}

\* from_str(..).unwrap_or_else(default)["distance_km"].as_f64().unwrap_or(0.0)
JsonDistanceKm(text) == IF text.t = "geo_distance" THEN text.v ELSE 0

\* from_str(..).unwrap_or_else(default)["bearing_degrees"]: a number or null
JsonBearingDegrees(text) ==
    IF text.t = "geo_bearing" THEN [null |-> FALSE, v |-> text.v]
    ELSE IF ~IsJson(text) THEN [null |-> FALSE, v |-> 0]
    ELSE [null |-> TRUE, v |-> 0]

\* Result<String, String>: the text is carried in msg
StrVal(text) == [ok |-> TRUE, v |-> 0, msg |-> text]

\* The match on the outcome of downstream::handle_request
RouteOptimizer_call_downstream_tool(tool_name, o) ==
    IF o.ok /\ o.kind = "call"
    THEN IF o.result.is_error = "true"
         THEN Fail(Txt("tool_returned_an_error", 0, tool_name))
         ELSE IF Len(o.result.content) > 0 /\ o.result.content[1].type = "text_inline"
         THEN StrVal(o.result.content[1].text)
         ELSE StrVal(JsonEmpty)
    ELSE IF o.ok THEN Fail(Txt("unexpected_response_type", 0, tool_name))
    ELSE IF o.kind = "method_not_found"
         THEN Fail(Txt("not_found_must_come_after", 0, tool_name))
    ELSE Fail(Txt("error_calling", 0, tool_name))

\* The arguments of the nested distance and bearing calls of pair i (from 1)
SegmentArgs(waypoints, i) ==
    Obj([lat1 |-> waypoints[i][1], lon1 |-> waypoints[i][2],
         lat2 |-> waypoints[i + 1][1], lon2 |-> waypoints[i + 1][2]])

Segment(waypoints, i, distance_result, bearing_result) ==
    [from |-> waypoints[i], to |-> waypoints[i + 1],
     distance_km |-> JsonDistanceKm(distance_result),
     distance_miles_null |-> distance_result.t # "geo_distance",
     bearing_degrees |-> JsonBearingDegrees(bearing_result)]

\* A route analysis whose total is overwritten by each segment, not accumulated
handle_analyze_route_without_running_total(f) ==
    LET parsed == parse_waypoints(f.req.args)
        waypoints == f.req.args.waypoints
        k == Len(f.got)
        i == (k \div 2) + 1
        tool_name(j) == IF j % 2 = 1 THEN "distance" ELSE "bearing"
        r(j) == RouteOptimizer_call_downstream_tool(tool_name(j), f.got[j])
    IN IF ~parsed.ok THEN Ret(OkCall(error_result(parsed.msg)))
       ELSE IF Len(waypoints) < 2
       THEN Ret(OkCall(error_result(Txt("route_must_have_at_least_2_waypoints", 0, ""))))
       ELSE IF k > 0 /\ ~r(k).ok THEN Ret(OkCall(error_result(r(k).msg)))
       ELSE IF k % 2 = 1
       THEN Call(Downstream(f.pos), ReqCall("bearing", SegmentArgs(waypoints, i)),
                 f.id, f.ctx)
       ELSE IF i <= Len(waypoints) - 1
       THEN Call(Downstream(f.pos), ReqCall("distance", SegmentArgs(waypoints, i)),
                 f.id, f.ctx)
       ELSE LET segments == [j \in 1..(Len(waypoints) - 1) |->
                                Segment(waypoints, j, r(2 * j - 1).msg, r(2 * j).msg)]
                total_distance_km == segments[Len(segments)].distance_km
            IN Ret(OkCall(success_result(RouteText(total_distance_km, segments))))

handle_analyze_route(f) ==
    LET parsed == parse_waypoints(f.req.args)
        waypoints == f.req.args.waypoints
        k == Len(f.got)
        i == (k \div 2) + 1
        tool_name(j) == IF j % 2 = 1 THEN "distance" ELSE "bearing"
        r(j) == RouteOptimizer_call_downstream_tool(tool_name(j), f.got[j])
    IN IF ~parsed.ok THEN Ret(OkCall(error_result(parsed.msg)))
       ELSE IF Len(waypoints) < 2
       THEN Ret(OkCall(error_result(Txt("route_must_have_at_least_2_waypoints", 0, ""))))
       ELSE IF k > 0 /\ ~r(k).ok THEN Ret(OkCall(error_result(r(k).msg)))
       ELSE IF k % 2 = 1
       THEN Call(Downstream(f.pos), ReqCall("bearing", SegmentArgs(waypoints, i)),
                 f.id, f.ctx)
       ELSE IF i <= Len(waypoints) - 1
       THEN Call(Downstream(f.pos), ReqCall("distance", SegmentArgs(waypoints, i)),
                 f.id, f.ctx)
       ELSE LET segments == [j \in 1..(Len(waypoints) - 1) |->
                                Segment(waypoints, j, r(2 * j - 1).msg, r(2 * j).msg)]
                total_distance_km == SumSeq([j \in 1..Len(segments) |->
                                                segments[j].distance_km])
            IN Ret(OkCall(success_result(RouteText(total_distance_km, segments))))

\* A delegation that re-enters the handler itself
RouteOptimizer_delegate_to_itself(f) ==
    IF Len(f.got) = 0 THEN Call(f.pos, f.req, f.id, f.ctx)
    ELSE Ret(f.got[1])

RouteOptimizer_delegate(f) ==
    IF Len(f.got) = 0 THEN Call(Downstream(f.pos), f.req, f.id, f.ctx)
    ELSE Ret(f.got[1])

RouteOptimizer_handle_request(f) ==
    IF f.req.kind = "list" THEN RouteOptimizer_handle_tools_list(f)
    ELSE IF f.req.kind = "call" /\ f.req.name = "analyze_route" THEN handle_analyze_route(f)
    ELSE RouteOptimizer_delegate(f)

\* ------------------------------------------------------------------------
\* Leaf tool providers: call_tool returns Option<CallToolResult>
\* ------------------------------------------------------------------------
Some(result) == [some |-> TRUE, result |-> result]

None == [some |-> FALSE, result |-> NoResult]

Abs(x) == IF x < 0 THEN -x ELSE x

RECURSIVE Pow(_, _)
Pow(base, exponent) == IF exponent = 0 THEN 1 ELSE base * Pow(base, exponent - 1)

\* math
parse_args(arguments) == ParseFields(arguments, <<"a", "b">>)

parse_single_arg(arguments, arg_name) == ParseFields(arguments, <<arg_name>>)

parse_power_args(arguments) == ParseFields(arguments, <<"base", "exponent">>)

execute_operation(arguments, op) ==
    LET parsed == parse_args(arguments)
        a == arguments.num.a
        b == arguments.num.b
    IN IF ~parsed.ok THEN error_result(parsed.msg)
       ELSE success_result(NumText(CASE op = "add" -> a + b
                                     [] op = "subtract" -> a - b
                                     [] op = "multiply" -> a * b))

execute_divide(arguments) ==
    LET parsed == parse_args(arguments) IN
    IF ~parsed.ok THEN error_result(parsed.msg)
    ELSE IF arguments.num.b = 0 THEN error_result(Txt("division_by_zero", 0, ""))
    ELSE success_result(NumText(Div(arguments.num.a, arguments.num.b)))

execute_square(arguments) ==
    LET parsed == parse_single_arg(arguments, "x") IN
    IF ~parsed.ok THEN error_result(parsed.msg)
    ELSE success_result(NumText(arguments.num.x * arguments.num.x))

\* A square_root that hands back its argument
execute_square_root_returning_argument(arguments) ==
    LET parsed == parse_single_arg(arguments, "x") IN
    IF ~parsed.ok THEN error_result(parsed.msg)
    ELSE IF arguments.num.x < 0
         THEN error_result(Txt("cannot_take_square_root_of_negative_number", 0, ""))
    ELSE success_result(NumText(arguments.num.x))

execute_square_root(arguments) ==
    LET parsed == parse_single_arg(arguments, "x") IN
    IF ~parsed.ok THEN error_result(parsed.msg)
    ELSE IF arguments.num.x < 0
         THEN error_result(Txt("cannot_take_square_root_of_negative_number", 0, ""))
    ELSE success_result(NumText(Sqrt(arguments.num.x)))

execute_power(arguments) ==
    LET parsed == parse_power_args(arguments) IN
    IF ~parsed.ok THEN error_result(parsed.msg)
    ELSE success_result(NumText(Pow(arguments.num.base, arguments.num.exponent)))

MathNames == <<"add", "subtract", "multiply", "divide", "square", "square_root", "power">>

Math_list_tools == [i \in 1..Len(MathNames) |-> Tool(MathNames[i], "math")]

Math_call_tool(request) ==
    CASE request.name \in {"add", "subtract", "multiply"} ->
             Some(execute_operation(request.args, request.name))
      [] request.name = "divide" -> Some(execute_divide(request.args))
      [] request.name = "square" -> Some(execute_square(request.args))
      [] request.name = "square_root" -> Some(execute_square_root(request.args))
      [] request.name = "power" -> Some(execute_power(request.args))
      [] OTHER -> None

\* statistics
Statistics_parse_numbers(arguments) ==
    IF arguments.form = "none" THEN Fail(Txt("missing_arguments", 0, ""))
    ELSE IF arguments.form = "bad" THEN Fail(Txt("invalid_json", 0, ""))
    ELSE IF arguments.arr # "numbers"
         THEN Fail(Txt("missing_or_invalid_parameter", 0, "numbers"))
    ELSE Val(0)

execute_mean(arguments) ==
    LET parsed == Statistics_parse_numbers(arguments)
        numbers == arguments.numbers
    IN IF ~parsed.ok THEN error_result(parsed.msg)
       ELSE IF numbers = <<>>
            THEN error_result(Txt("cannot_calculate_mean_of_empty_array", 0, ""))
       ELSE success_result(NumText(Div(SumSeq(numbers), Len(numbers))))

execute_sum(arguments) ==
    LET parsed == Statistics_parse_numbers(arguments) IN
    IF ~parsed.ok THEN error_result(parsed.msg)
    ELSE success_result(NumText(SumSeq(arguments.numbers)))

execute_count(arguments) ==
    LET parsed == Statistics_parse_numbers(arguments) IN
    IF ~parsed.ok THEN error_result(parsed.msg)
    ELSE success_result(NumText(Len(arguments.numbers)))

StatisticsNames == <<"mean", "sum", "count">>

Statistics_list_tools == [i \in 1..Len(StatisticsNames) |-> Tool(StatisticsNames[i], "statistics")]

Statistics_call_tool(request) ==
    CASE request.name = "mean" -> Some(execute_mean(request.args))
      [] request.name = "sum" -> Some(execute_sum(request.args))
      [] request.name = "count" -> Some(execute_count(request.args))
      [] OTHER -> None

\* geospatial-distance and geospatial-bearing.  Angles are whole degrees and
\* the two points lie on one meridian or both on the equator, where the
\* great-circle angle is the difference of the coordinates; distance_km is
\* kept in units of pi/180 km.
EARTH_RADIUS_KM == 6371

CentralAngle(lat1, lon1, lat2, lon2) ==
    CASE lon1 = lon2 -> Abs(lat2 - lat1)
      [] lon1 # lon2 /\ lat1 = 0 /\ lat2 = 0 -> Abs(lon2 - lon1)

haversine_distance(lat1, lon1, lat2, lon2) ==
    EARTH_RADIUS_KM * CentralAngle(lat1, lon1, lat2, lon2)

calculate_bearing(lat1, lon1, lat2, lon2) ==
    CASE lon1 = lon2 /\ lat2 >= lat1 -> 0
      [] lon1 = lon2 /\ lat2 < lat1 -> 180
      [] lon1 # lon2 /\ lat1 = 0 /\ lat2 = 0 /\ lon2 > lon1 -> 90
      [] lon1 # lon2 /\ lat1 = 0 /\ lat2 = 0 /\ lon2 < lon1 -> 270

validate_coordinates(lat1, lon1, lat2, lon2) ==
    IF lat1 < -90 \/ lat1 > 90 \/ lat2 < -90 \/ lat2 > 90
    THEN Fail(Txt("latitude_must_be_between_-90_and_90", 0, ""))
    ELSE IF lon1 < -180 \/ lon1 > 180 \/ lon2 < -180 \/ lon2 > 180
    THEN Fail(Txt("longitude_must_be_between_-180_and_180", 0, ""))
    ELSE Val(0)

GeospatialDistance_parse_distance_args(arguments) ==
    ParseFields(arguments, <<"lat1", "lon1", "lat2", "lon2">>)

execute_distance(arguments) ==
    LET parsed == GeospatialDistance_parse_distance_args(arguments)
        a == arguments.num
    IN IF ~parsed.ok THEN error_result(parsed.msg)
       ELSE IF ~validate_coordinates(a.lat1, a.lon1, a.lat2, a.lon2).ok
       THEN error_result(validate_coordinates(a.lat1, a.lon1, a.lat2, a.lon2).msg)
       ELSE success_result(GeoDistanceText(haversine_distance(a.lat1, a.lon1, a.lat2, a.lon2)))

GeospatialDistance_list_tools == <<Tool("distance", "lat1,lon1,lat2,lon2")>>

GeospatialDistance_call_tool(request) ==
    IF request.name = "distance" THEN Some(execute_distance(request.args)) ELSE None

parse_bearing_args(arguments) ==
    ParseFields(arguments, <<"lat1", "lon1", "lat2", "lon2">>)

execute_bearing(arguments) ==
    LET parsed == parse_bearing_args(arguments)
        a == arguments.num
    IN IF ~parsed.ok THEN error_result(parsed.msg)
       ELSE IF ~validate_coordinates(a.lat1, a.lon1, a.lat2, a.lon2).ok
       THEN error_result(validate_coordinates(a.lat1, a.lon1, a.lat2, a.lon2).msg)
       ELSE success_result(GeoBearingText(calculate_bearing(a.lat1, a.lon1, a.lat2, a.lon2)))

GeospatialBearing_list_tools == <<Tool("bearing", "lat1,lon1,lat2,lon2")>>

GeospatialBearing_call_tool(request) ==
    IF request.name = "bearing" THEN Some(execute_bearing(request.args)) ELSE None

\* geospatial-point-in-polygon.  Points are <<lat, lon>> with whole-degree
\* coordinates; EPSILON (1e-10) separates 0 from every other integer, and the
\* comparison of the ray casting is cleared of its division.
PolygonObj(point, polygon) ==
    Args("obj", [lat |-> point[1], lon |-> point[2]], "polygon", <<>>, polygon)

parse_point_in_polygon_args(arguments) ==
    IF arguments.form = "none" THEN Fail(Txt("missing_arguments", 0, ""))
    ELSE IF arguments.form = "bad" THEN Fail(Txt("invalid_json", 0, ""))
    ELSE IF "lat" \notin DOMAIN arguments.num
         THEN Fail(Txt("missing_or_invalid_parameter", 0, "point.lat"))
    ELSE IF "lon" \notin DOMAIN arguments.num
         THEN Fail(Txt("missing_or_invalid_parameter", 0, "point.lon"))
    ELSE IF arguments.arr # "polygon"
         THEN Fail(Txt("missing_or_invalid_parameter", 0, "polygon"))
    ELSE Val(0)

validate_point(point) ==
    IF point[1] < -90 \/ point[1] > 90
    THEN Fail(Txt("invalid_latitude", point[1], ""))
    ELSE IF point[2] < -180 \/ point[2] > 180
    THEN Fail(Txt("invalid_longitude", point[2], ""))
    ELSE Val(0)

is_point_on_segment(point, seg_start, seg_end) ==
    LET cross_product == (point[1] - seg_start[1]) * (seg_end[2] - seg_start[2])
                         - (point[2] - seg_start[2]) * (seg_end[1] - seg_start[1])
        dot_product == (point[2] - seg_start[2]) * (seg_end[2] - seg_start[2])
                       + (point[1] - seg_start[1]) * (seg_end[1] - seg_start[1])
        squared_length == (seg_end[2] - seg_start[2]) * (seg_end[2] - seg_start[2])
                          + (seg_end[1] - seg_start[1]) * (seg_end[1] - seg_start[1])
    IN IF cross_product # 0 THEN FALSE
       ELSE dot_product >= 0 /\ dot_product <= squared_length

is_on_boundary(point, polygon) ==
    LET n == Len(polygon) IN
    IF n < 3 THEN FALSE
    ELSE \E i \in 1..n : is_point_on_segment(point, polygon[i], polygon[(i % n) + 1])

\* inside is toggled once for every edge (j, i) the ray crosses
ray_casting_algorithm(point, polygon) ==
    LET n == Len(polygon)
        x == point[2]
        y == point[1]
        prev(i) == IF i = 1 THEN n ELSE i - 1
        crosses(i) ==
            LET xi == polygon[i][2]
                yi == polygon[i][1]
                xj == polygon[prev(i)][2]
                yj == polygon[prev(i)][1]
            IN /\ (yi > y) # (yj > y)
               /\ IF yj > yi
                  THEN (x - xi) * (yj - yi) < (xj - xi) * (y - yi)
                  ELSE (x - xi) * (yj - yi) > (xj - xi) * (y - yi)
    IN IF n < 3 THEN FALSE
       ELSE Cardinality({i \in 1..n : crosses(i)}) % 2 = 1

\* A point_in_polygon without the vertex count check
execute_point_in_polygon_accepting_any_polygon(arguments) ==
    LET parsed == parse_point_in_polygon_args(arguments)
        point == <<arguments.num.lat, arguments.num.lon>>
        polygon == arguments.waypoints
    IN IF ~parsed.ok THEN error_result(parsed.msg)
       ELSE IF ~validate_point(point).ok THEN error_result(validate_point(point).msg)
       ELSE IF \E i \in 1..Len(polygon) : ~validate_point(polygon[i]).ok
       THEN error_result(Txt("polygon_vertex", 0, ""))
       ELSE success_result(Txt("point_in_polygon",
                               IF ray_casting_algorithm(point, polygon) THEN 1 ELSE 0,
                               IF is_on_boundary(point, polygon) THEN "on_boundary"
                               ELSE "off_boundary"))

execute_point_in_polygon(arguments) ==
    LET parsed == parse_point_in_polygon_args(arguments)
        point == <<arguments.num.lat, arguments.num.lon>>
        polygon == arguments.waypoints
        bad == {i \in 1..Len(polygon) : ~validate_point(polygon[i]).ok}
    IN IF ~parsed.ok THEN error_result(parsed.msg)
       ELSE IF Len(polygon) < 3
       THEN error_result(Txt("polygon_must_have_at_least_3_vertices", 0, ""))
       ELSE IF ~validate_point(point).ok THEN error_result(validate_point(point).msg)
       ELSE IF bad # {}
       THEN error_result(Txt("polygon_vertex", Min(bad) - 1, validate_point(polygon[Min(bad)]).msg.t))
       ELSE success_result(Txt("point_in_polygon",
                               IF ray_casting_algorithm(point, polygon) THEN 1 ELSE 0,
                               IF is_on_boundary(point, polygon) THEN "on_boundary"
                               ELSE "off_boundary"))

GeospatialPointInPolygon_list_tools == <<Tool("point_in_polygon", "point,polygon")>>

GeospatialPointInPolygon_call_tool(request) ==
    IF request.name = "point_in_polygon"
    THEN Some(execute_point_in_polygon(request.args))
    ELSE None

\* ------------------------------------------------------------------------
\* The handler that exposes a tools provider in a chain: it answers the
\* provider's tools, lists them after downstream's, and passes on the rest.
\* ------------------------------------------------------------------------
LeafKinds == {"math", "statistics", "geo_distance", "geo_bearing", "geo_point_in_polygon"}

list_tools(kind) ==
    CASE kind = "math" -> Math_list_tools
      [] kind = "statistics" -> Statistics_list_tools
      [] kind = "geo_distance" -> GeospatialDistance_list_tools
      [] kind = "geo_bearing" -> GeospatialBearing_list_tools
      [] kind = "geo_point_in_polygon" -> GeospatialPointInPolygon_list_tools

call_tool(kind, request) ==
    CASE kind = "math" -> Math_call_tool(request)
      [] kind = "statistics" -> Statistics_call_tool(request)
      [] kind = "geo_distance" -> GeospatialDistance_call_tool(request)
      [] kind = "geo_bearing" -> GeospatialBearing_call_tool(request)
      [] kind = "geo_point_in_polygon" -> GeospatialPointInPolygon_call_tool(request)

Provider_handle_request(kind, f) ==
    IF f.req.kind = "call" /\ call_tool(kind, f.req).some
    THEN Ret(OkCall(call_tool(kind, f.req).result))
    ELSE IF Len(f.got) = 0 THEN Call(Downstream(f.pos), f.req, f.id, f.ctx)
    ELSE IF f.req.kind = "list"
    THEN LET d == f.got[1] IN
         IF d.ok /\ d.kind = "list"
         THEN Ret(OkList(d.tools \o list_tools(kind), d.next_cursor, d.meta))
         ELSE Ret(OkList(list_tools(kind), "None", "None"))
    ELSE Ret(f.got[1])

\* ------------------------------------------------------------------------
\* What lies behind the last handler.  "conforming" is the terminal node:
\* an empty tools list and MethodNotFound for everything else.  The other
\* kinds are downstream components that answer every request in one fixed
\* way, one for each outcome the handlers distinguish.
\* ------------------------------------------------------------------------
ResultStubs ==
    {"error_flag", "empty", "stream_only", "stream_then_number", "image_then_number",
     "garbage", "number", "padded_number"}

\* "stalling" is a downstream that never returns from handle_request
TerminalKinds ==
    {"conforming", "no_tools", "failing", "wrong_kind", "listing", "stalling"}
    \cup ResultStubs

StubResult(kind) ==
    CASE kind = "error_flag" -> ToolResult("true", <<InlineBlock(NumText(4))>>)
      [] kind = "empty" -> ToolResult("none", <<>>)
      [] kind = "stream_only" -> ToolResult("none", <<StreamBlock>>)
      [] kind = "stream_then_number" -> ToolResult("none", <<StreamBlock, InlineBlock(NumText(4))>>)
      [] kind = "image_then_number" -> ToolResult("none", <<ImageBlock, InlineBlock(NumText(4))>>)
      [] kind = "garbage" -> ToolResult("none", <<InlineBlock(Txt("garbage", 0, ""))>>)
      [] kind = "number" -> ToolResult("false", <<InlineBlock(NumText(4))>>)
      [] kind = "padded_number" -> ToolResult("none", <<InlineBlock(Txt("padded_num", 4, ""))>>)

StubTool == Tool("stub_tool", "stub")

Terminal_handle_request(kind, req) ==
    CASE kind = "failing" -> ErrOther("downstream failure")
      [] kind = "wrong_kind" -> OkOther
      [] kind = "no_tools" ->
             ErrMethodNotFound(IF req.kind = "call" THEN req.name ELSE req.kind)
      [] kind = "listing" /\ req.kind = "list" -> OkList(<<StubTool>>, "cursor1", "meta1")
      [] kind \notin {"failing", "wrong_kind", "no_tools", "listing"} /\ req.kind = "list" ->
             OkList(<<>>, "None", "None")
      [] kind \in ResultStubs /\ req.kind = "call" -> OkCall(StubResult(kind))
      [] OTHER -> ErrMethodNotFound(IF req.kind = "call" THEN req.name ELSE req.kind)

\* ------------------------------------------------------------------------
\* Inputs: the chains that are composed and the requests a client sends
\* ------------------------------------------------------------------------
Middleware == {"distance_calculator", "pythagorean", "variance", "stddev", "route_optimizer"}

Chains ==
    {<<"distance_calculator">>, <<"pythagorean">>, <<"variance">>, <<"stddev">>,
     <<"route_optimizer">>, <<"math">>, <<"statistics">>, <<"geo_point_in_polygon">>,
     <<"distance_calculator", "math">>, <<"pythagorean", "math">>,
     <<"variance", "statistics">>, <<"variance", "statistics", "math">>,
     <<"stddev", "variance", "statistics", "math">>,
     <<"route_optimizer", "geo_distance", "geo_bearing">>,
     <<"math", "pythagorean">>, <<"math", "distance_calculator">>,
     <<"statistics", "variance">>, <<"variance", "stddev", "statistics", "math">>,
     <<"geo_distance", "geo_bearing", "route_optimizer">>,
     <<"stddev", "variance", "math">>, <<"stddev", "variance", "statistics">>,
     <<"route_optimizer", "geo_distance">>, <<"route_optimizer", "geo_bearing">>,
     <<"route_optimizer", "distance_calculator", "geo_distance", "geo_bearing">>,
     <<"distance_calculator", "geo_distance">>,
     <<"pythagorean", "variance", "distance_calculator">>,
     <<"stddev", "route_optimizer", "pythagorean", "variance", "distance_calculator">>}

\* The chains that are also run over a downstream that is not the terminal node
StubChains ==
    {<<"distance_calculator">>, <<"pythagorean">>, <<"variance">>, <<"stddev">>,
     <<"route_optimizer">>, <<"stddev", "variance">>, <<"stddev", "math">>,
     <<"stddev", "variance", "statistics">>, <<"route_optimizer", "geo_distance">>,
     <<"pythagorean", "variance", "distance_calculator">>}

\* The (RequestId, Context) pairs of the top-level requests
Sessions == {<<1, "ctx_a">>, <<2, "ctx_b">>}

\* A route along the equator, one degree per leg
Route(n) == [i \in 1..n |-> <<0, i - 1>>]

NumberLists == {<<>>, <<2>>, <<1, 3>>, <<2, 4, 4, 4, 5, 5, 7, 9>>}

ArgsChoices(name) ==
    CASE name = "distance" ->
             {Obj([x1 |-> 0, y1 |-> 0, x2 |-> 3, y2 |-> 4]),
              Obj([x1 |-> 3, y1 |-> 4, x2 |-> 0, y2 |-> 4]),
              Obj([x1 |-> 0, y1 |-> 0, x2 |-> 3]),
              Obj([lat1 |-> 0, lon1 |-> 0, lat2 |-> 0, lon2 |-> 1]),
              Obj([lat1 |-> 91, lon1 |-> 0, lat2 |-> 0, lon2 |-> 0])}
      [] name = "bearing" -> {Obj([lat1 |-> 0, lon1 |-> 0, lat2 |-> 0, lon2 |-> 1])}
      [] name = "pythagorean" ->
             {Obj([a |-> 3, b |-> 4]), Obj([a |-> -3, b |-> 0]), Obj([a |-> 6, b |-> 8]),
              Obj([a |-> 3])}
      [] name \in {"variance", "stddev", "standard_deviation", "mean"} ->
             {NumbersObj(q) : q \in NumberLists} \cup {Obj([x |-> 1])}
      [] name = "analyze_route" ->
             {WaypointsObj(Route(n)) : n \in 0..MaxWaypoints} \cup {Obj([x |-> 1])}
      [] name = "square" -> {Obj([x |-> 3])}
      [] name = "square_root" -> {Obj([x |-> 9]), Obj([x |-> -1])}
      [] name \in {"add", "subtract", "multiply"} -> {Obj([a |-> 9, b |-> 16])}
      [] name = "power" -> {Obj([base |-> 2, exponent |-> 3]), Obj([base |-> 2])}
      [] name = "divide" -> {Obj([a |-> 8, b |-> 2]), Obj([a |-> 8, b |-> 0])}
      [] name = "sum" -> {NumbersObj(<<>>), NumbersObj(<<1, 3>>)}
      [] name = "count" -> {NumbersObj(<<>>), NumbersObj(<<1, 3>>)}
      [] name = "point_in_polygon" ->
             {PolygonObj(<<1, 1>>, <<<<0, 0>>, <<0, 4>>, <<4, 0>>>>),
              PolygonObj(<<5, 5>>, <<<<0, 0>>, <<0, 4>>, <<4, 0>>>>),
              PolygonObj(<<0, 2>>, <<<<0, 0>>, <<0, 4>>, <<4, 0>>>>),
              PolygonObj(<<1, 1>>, <<<<0, 0>>, <<0, 4>>>>),
              PolygonObj(<<91, 1>>, <<<<0, 0>>, <<0, 4>>, <<4, 0>>>>),
              PolygonObj(<<1, 1>>, <<<<0, 0>>, <<0, 181>>, <<4, 0>>>>),
              Obj([lat |-> 1])}
      [] name = "unknown_tool" -> {Obj([x |-> 1])}

ToolNames ==
    {"distance", "bearing", "pythagorean", "variance", "stddev", "standard_deviation",
     "mean", "sum", "count", "analyze_route", "square", "square_root", "add", "subtract",
     "multiply", "divide", "power", "point_in_polygon", "unknown_tool"}

Requests ==
    {ReqList, ReqPing}
    \cup {ReqCall(name, args) : name \in ToolNames, args \in {NoArgs, BadJson}}
    \cup UNION {{ReqCall(name, args) : args \in ArgsChoices(name)} : name \in ToolNames}

\* ------------------------------------------------------------------------
\* Notifications and responses of the client: handle_notification and
\* handle_response return nothing; what a handler does with the message is
\* the sequence of operations it invokes on its downstream reference.
\* ------------------------------------------------------------------------
Forward(op, ctx, message) == [op |-> op, ctx |-> ctx, message |-> message]

DistanceCalculator_handle_notification(ctx, notification) ==
    <<Forward("handle_notification", ctx, notification)>>

DistanceCalculator_handle_response(ctx, response) ==
    <<Forward("handle_response", ctx, response)>>

\* A handler that swallows the notification
Pythagorean_handle_notification_swallowing(ctx, notification) == <<>>

Pythagorean_handle_notification(ctx, notification) ==
    <<Forward("handle_notification", ctx, notification)>>

Pythagorean_handle_response(ctx, response) ==
    <<Forward("handle_response", ctx, response)>>

Variance_handle_notification(ctx, notification) ==
    <<Forward("handle_notification", ctx, notification)>>

Variance_handle_response(ctx, response) ==
    <<Forward("handle_response", ctx, response)>>

StdDev_handle_notification(ctx, notification) ==
    <<Forward("handle_notification", ctx, notification)>>

StdDev_handle_response(ctx, response) ==
    <<Forward("handle_response", ctx, response)>>

RouteOptimizer_handle_notification(ctx, notification) ==
    <<Forward("handle_notification", ctx, notification)>>

RouteOptimizer_handle_response(ctx, response) ==
    <<Forward("handle_response", ctx, response)>>

\* The handler that exposes a leaf provider passes both on as well
Provider_pass_through(op, ctx, message) == <<Forward(op, ctx, message)>>

handle_notification(kind, ctx, notification) ==
    CASE kind = "distance_calculator" -> DistanceCalculator_handle_notification(ctx, notification)
      [] kind = "pythagorean" -> Pythagorean_handle_notification(ctx, notification)
      [] kind = "variance" -> Variance_handle_notification(ctx, notification)
      [] kind = "stddev" -> StdDev_handle_notification(ctx, notification)
      [] kind = "route_optimizer" -> RouteOptimizer_handle_notification(ctx, notification)
      [] kind \in LeafKinds -> Provider_pass_through("handle_notification", ctx, notification)
      [] OTHER -> <<>>

handle_response(kind, ctx, response) ==
    CASE kind = "distance_calculator" -> DistanceCalculator_handle_response(ctx, response)
      [] kind = "pythagorean" -> Pythagorean_handle_response(ctx, response)
      [] kind = "variance" -> Variance_handle_response(ctx, response)
      [] kind = "stddev" -> StdDev_handle_response(ctx, response)
      [] kind = "route_optimizer" -> RouteOptimizer_handle_response(ctx, response)
      [] kind \in LeafKinds -> Provider_pass_through("handle_response", ctx, response)
      [] OTHER -> <<>>

\* ClientNotification values, and Result<(ClientResponse, RequestId), ErrorCode>
Notifications == {[kind |-> "initialized", id |-> 0], [kind |-> "cancelled", id |-> 1]}

Responses == {[kind |-> "ok_response", id |-> 1], [kind |-> "err_response", id |-> 2]}

Contexts == {session[2] : session \in Sessions}

\* ------------------------------------------------------------------------
\* The state machine
\* ------------------------------------------------------------------------
NoLast == [valid |-> FALSE, frame |-> NoFrame, out |-> NoOutcome]

Event(ev, from, to, req, id, ctx, out) ==
    [ev |-> ev, from |-> from, to |-> to, req |-> req, id |-> id, ctx |-> ctx, out |-> out]

\* History of the client: when the request being served repeats the one
\* served just before it, the answer and the downstream requests of that
\* one (without RequestId and Context, which belong to the request)
NoPrevious == [valid |-> FALSE, out |-> NoOutcome, calls |-> <<>>]

DownstreamRequests(events) ==
    LET issued == SelectSeq(events, LAMBDA e : e.ev = "call")
    IN [k \in 1..Len(issued) |->
           [from |-> issued[k].from, to |-> issued[k].to, req |-> issued[k].req]]

\* The notification or response on its way down the chain: the position of
\* the handler that holds it (0: none) and the downstream invocations so far
NoRelay ==
    [op |-> "", pos |-> 0, ctx |-> "", message |-> [kind |-> "", id |-> 0], log |-> <<>>]

Top == stack[Len(stack)]

KindAt(pos) == IF pos \in 1..Len(chain) THEN chain[pos] ELSE "terminal"

Init ==
    /\ chain \in Chains
    /\ terminal \in TerminalKinds
    /\ terminal # "conforming" => chain \in StubChains
    /\ stack = <<>>
    /\ trace = <<>>
    /\ last = NoLast
    /\ previous = NoPrevious
    /\ relay = NoRelay

\* A call that does not block: the caller goes on without the callee's answer
Perform_without_waiting(s) ==
    LET n == Len(stack)
        f == stack[n]
    IN /\ IF s.op = "call"
          THEN /\ stack' = [stack EXCEPT ![n].calls =
                               Append(@, CallRec(f.pos, s.to, s.req, s.id, s.ctx))]
               /\ trace' = Append(trace, Event("call", f.pos, s.to, s.req, s.id, s.ctx,
                                               NoOutcome))
               /\ last' = last
          ELSE /\ stack' = IF n = 1 THEN <<>>
                           ELSE [SubSeq(stack, 1, n - 1) EXCEPT ![n - 1].got =
                                    Append(@, s.out)]
               /\ trace' = Append(trace, Event("ret", f.pos, f.pos - 1, f.req, f.id,
                                               f.ctx, s.out))
               /\ last' = [valid |-> TRUE, frame |-> f, out |-> s.out]
       /\ UNCHANGED <<chain, terminal, previous, relay>>

\* The step s of the invocation at the top of the stack: a downstream call
\* pushes the callee's frame, a return pops the frame and hands the outcome
\* to the caller.
Perform(s) ==
    LET n == Len(stack)
        f == stack[n]
    IN /\ IF s.op = "call"
          THEN /\ stack' = Append([stack EXCEPT ![n].calls =
                                      Append(@, CallRec(f.pos, s.to, s.req, s.id, s.ctx))],
                                  Frame(s.to, s.req, s.id, s.ctx))
               /\ trace' = Append(trace, Event("call", f.pos, s.to, s.req, s.id, s.ctx,
                                               NoOutcome))
               /\ last' = last
          ELSE /\ stack' = IF n = 1 THEN <<>>
                           ELSE [SubSeq(stack, 1, n - 1) EXCEPT ![n - 1].got =
                                    Append(@, s.out)]
               /\ trace' = Append(trace, Event("ret", f.pos, f.pos - 1, f.req, f.id,
                                               f.ctx, s.out))
               /\ last' = [valid |-> TRUE, frame |-> f, out |-> s.out]
       /\ UNCHANGED <<chain, terminal, previous, relay>>

\* The transport enters handle_request of the head of the chain with one of
\* the given requests
Submit(requests, sessions) ==
    /\ stack = <<>>
    /\ relay.pos = 0
    /\ relay' = NoRelay
    /\ \E req \in requests, session \in sessions :
           /\ stack' = <<Frame(1, req, session[1], session[2])>>
           /\ previous' = IF last.valid /\ last.frame.req = req
                          THEN [valid |-> TRUE, out |-> last.out,
                                calls |-> DownstreamRequests(trace)]
                          ELSE NoPrevious
    /\ trace' = <<>>
    /\ last' = NoLast
    /\ UNCHANGED <<chain, terminal>>

ClientRequest == Submit(Requests, Sessions)

\* The client sends a notification or a response to the head of the chain
ClientMessage ==
    /\ stack = <<>>
    /\ relay.pos = 0
    /\ \E ctx \in Contexts :
           \/ \E notification \in Notifications :
                  relay' = [op |-> "handle_notification", pos |-> 1, ctx |-> ctx,
                            message |-> notification, log |-> <<>>]
           \/ \E response \in Responses :
                  relay' = [op |-> "handle_response", pos |-> 1, ctx |-> ctx,
                            message |-> response, log |-> <<>>]
    /\ trace' = <<>>
    /\ last' = NoLast
    /\ previous' = NoPrevious
    /\ UNCHANGED <<chain, terminal, stack>>

\* The handler holding the message runs; every downstream invocation it
\* makes is logged and, the calls being synchronous, runs the next handler
Deliver(invocations) ==
    /\ relay' = IF invocations = <<>>
                THEN [relay EXCEPT !.pos = 0]
                ELSE [relay EXCEPT
                         !.pos = Downstream(relay.pos),
                         !.op = invocations[1].op,
                         !.ctx = invocations[1].ctx,
                         !.message = invocations[1].message,
                         !.log = @ \o [k \in 1..Len(invocations) |->
                                          [from |-> relay.pos,
                                           to |-> Downstream(relay.pos),
                                           op |-> invocations[k].op,
                                           ctx |-> invocations[k].ctx,
                                           message |-> invocations[k].message]]]
    /\ UNCHANGED <<chain, terminal, stack, trace, last, previous>>

NotificationStep ==
    /\ relay.pos > 0
    /\ relay.op = "handle_notification"
    /\ Deliver(handle_notification(KindAt(relay.pos), relay.ctx, relay.message))

ResponseStep ==
    /\ relay.pos > 0
    /\ relay.op = "handle_response"
    /\ Deliver(handle_response(KindAt(relay.pos), relay.ctx, relay.message))

DistanceCalculatorStep ==
    /\ stack # <<>>
    /\ KindAt(Top.pos) = "distance_calculator"
    /\ Perform(DistanceCalculator_handle_request(Top))

PythagoreanStep ==
    /\ stack # <<>>
    /\ KindAt(Top.pos) = "pythagorean"
    /\ Perform(Pythagorean_handle_request(Top))

\* A variance handler that keeps the answer of the last request and hands it
\* out again when the request is repeated
VarianceStep_answering_from_memory ==
    /\ stack # <<>>
    /\ KindAt(Top.pos) = "variance"
    /\ Perform(IF previous.valid /\ Top.req.kind = "call" /\ Top.req.name = "variance"
               THEN Ret(previous.out)
               ELSE Variance_handle_request(Top))

VarianceStep ==
    /\ stack # <<>>
    /\ KindAt(Top.pos) = "variance"
    /\ Perform(Variance_handle_request(Top))

StdDevStep ==
    /\ stack # <<>>
    /\ KindAt(Top.pos) = "stddev"
    /\ Perform(StdDev_handle_request(Top))

RouteOptimizerStep ==
    /\ stack # <<>>
    /\ KindAt(Top.pos) = "route_optimizer"
    /\ Perform(RouteOptimizer_handle_request(Top))

ProviderStep ==
    /\ stack # <<>>
    /\ KindAt(Top.pos) \in LeafKinds
    /\ Perform(Provider_handle_request(KindAt(Top.pos), Top))

TerminalStep ==
    /\ stack # <<>>
    /\ KindAt(Top.pos) = "terminal"
    /\ terminal # "stalling"
    /\ Perform(Ret(Terminal_handle_request(terminal, Top.req)))

Next ==
    \/ ClientRequest
    \/ DistanceCalculatorStep
    \/ PythagoreanStep
    \/ VarianceStep
    \/ StdDevStep
    \/ RouteOptimizerStep
    \/ ProviderStep
    \/ TerminalStep
    \/ ClientMessage
    \/ NotificationStep
    \/ ResponseStep

Spec == Init /\ [][Next]_vars

\* A handler that has been entered runs: every downstream call is a
\* synchronous function call, so the component on top of the stack takes its
\* next step.  The client is under no obligation to send anything.
\* The requests of the liveness check: a tools-list, a request that is
\* neither tools-list nor tools-call, and tools-calls on every synthetic
\* tool, on leaf tools and on a tool nobody owns
LiveRequests ==
    {ReqList, ReqPing,
     ReqCall("stddev", NumbersObj(<<2, 4, 4, 4, 5, 5, 7, 9>>)),
     ReqCall("standard_deviation", NumbersObj(<<>>)),
     ReqCall("variance", NumbersObj(<<1, 3>>)),
     ReqCall("variance", BadJson),
     ReqCall("pythagorean", Obj([a |-> 3, b |-> 4])),
     ReqCall("distance", Obj([x1 |-> 0, y1 |-> 0, x2 |-> 3, y2 |-> 4])),
     ReqCall("analyze_route", WaypointsObj(Route(MaxWaypoints))),
     ReqCall("analyze_route", WaypointsObj(Route(1))),
     ReqCall("mean", NumbersObj(<<1, 3>>)),
     ReqCall("square_root", Obj([x |-> -1])),
     ReqCall("divide", Obj([a |-> 8, b |-> 2])),
     ReqCall("unknown_tool", Obj([x |-> 1]))}

LiveClientRequest == Submit(LiveRequests, {<<1, "ctx_a">>})

LiveChains ==
    {<<"stddev", "variance", "statistics", "math">>,
     <<"stddev", "route_optimizer", "pythagorean", "variance", "distance_calculator">>}

LiveInit ==
    /\ chain \in LiveChains
    /\ terminal \in {"conforming", "stalling"}
    /\ stack = <<>>
    /\ trace = <<>>
    /\ last = NoLast
    /\ previous = NoPrevious
    /\ relay = NoRelay

HandlerStep ==
    \/ DistanceCalculatorStep
    \/ PythagoreanStep
    \/ VarianceStep
    \/ StdDevStep
    \/ RouteOptimizerStep
    \/ ProviderStep
    \/ TerminalStep

LiveNext == LiveClientRequest \/ HandlerStep

LiveSpec ==
    /\ LiveInit
    /\ [][LiveNext]_vars
    /\ WF_vars(HandlerStep)

\* ------------------------------------------------------------------------
\* Vocabulary of the properties
\* ------------------------------------------------------------------------
\* The tool names a middleware answers itself, and the tools it declares
OwnedNames(kind) ==
    CASE kind = "distance_calculator" -> {"distance"}
      [] kind = "pythagorean" -> {"pythagorean"}
      [] kind = "variance" -> {"variance"}
      [] kind = "stddev" -> {"standard_deviation", "stddev"}
      [] kind = "route_optimizer" -> {"analyze_route"}
      [] kind \in LeafKinds -> {list_tools(kind)[i].name : i \in 1..Len(list_tools(kind))}
      [] OTHER -> {}

OwnTools(kind) ==
    CASE kind = "distance_calculator" -> <<DistanceTool>>
      [] kind = "pythagorean" -> <<PythagoreanTool>>
      [] kind = "variance" -> <<VarianceTool>>
      [] kind = "stddev" -> <<StandardDeviationTool, StdDevAliasTool>>
      [] kind = "route_optimizer" -> <<RouteTool>>

\* A request the handler of this kind passes on: a tools-call it does not
\* own, or a request that is neither tools-list nor tools-call
Delegated(kind, req) ==
    \/ req.kind = "call" /\ req.name \notin OwnedNames(kind)
    \/ req.kind \notin {"list", "call"}

\* A tools-call the handler of this kind computes itself
Synthetic(kind, req) == req.kind = "call" /\ req.name \in OwnedNames(kind)

\* The invocation that returned last was one of a middleware handler
MiddlewareReturned == last.valid /\ KindAt(last.frame.pos) \in Middleware

\* The top-level request has been answered
Answered == stack = <<>> /\ last.valid

MiddlewareOnly == \A i \in 1..Len(chain) : chain[i] \in Middleware

\* The downstream calls of the trace, in order
RECURSIVE CallsOf(_)
CallsOf(events) ==
    IF events = <<>> THEN <<>>
    ELSE IF Head(events).ev = "call" THEN <<Head(events)>> \o CallsOf(Tail(events))
    ELSE CallsOf(Tail(events))

IsErrorResult(out) == out.ok /\ out.kind = "call" /\ out.result.is_error = "true"

\* ------------------------------------------------------------------------
\* C1: a middleware handler that receives a tools-call it does not own, or a
\* request that is neither tools-list nor tools-call, issues exactly one
\* downstream handle_request with the identical request, the same ctx and
\* the same id, and returns what downstream returned, Ok or Err, unchanged.
\* ------------------------------------------------------------------------
C1_DelegatesVerbatim ==
    /\ \A i \in 1..Len(stack) :
           KindAt(stack[i].pos) \in Middleware /\ Delegated(KindAt(stack[i].pos), stack[i].req)
           => /\ Len(stack[i].calls) <= 1
              /\ \A j \in 1..Len(stack[i].calls) :
                     /\ stack[i].calls[j].req = stack[i].req
                     /\ stack[i].calls[j].id = stack[i].id
                     /\ stack[i].calls[j].ctx = stack[i].ctx
    /\ MiddlewareReturned /\ Delegated(KindAt(last.frame.pos), last.frame.req)
       => /\ Len(last.frame.calls) = 1
          /\ last.frame.calls[1].req = last.frame.req
          /\ last.frame.calls[1].id = last.frame.id
          /\ last.frame.calls[1].ctx = last.frame.ctx
          /\ Len(last.frame.got) = 1
          /\ last.out = last.frame.got[1]

\* A delegated tools-call answered by a handler further down and handed back
\* as it came
C1_Witness ==
    /\ MiddlewareReturned
    /\ Delegated(KindAt(last.frame.pos), last.frame.req)
    /\ last.frame.req.kind = "call"
    /\ last.frame.req.args.form = "obj"
    /\ last.out.ok
    /\ last.out.result.is_error = "none"
    /\ last.frame.id = 2

\* ------------------------------------------------------------------------
\* C2: in a chain of middleware handlers over the terminal node, a
\* tools-call naming a tool no handler owns passes through every handler
\* exactly once, in chain order, and the head returns the terminal's
\* MethodNotFound as a protocol-level Err.
\* ------------------------------------------------------------------------
Unowned(req) ==
    req.kind = "call" /\ \A i \in 1..Len(chain) : req.name \notin OwnedNames(chain[i])

C2_UnownedCallReachesTerminal ==
    Answered /\ MiddlewareOnly /\ terminal = "conforming" /\ Unowned(last.frame.req)
    => /\ Len(CallsOf(trace)) = Len(chain)
       /\ \A k \in 1..Len(CallsOf(trace)) :
              /\ CallsOf(trace)[k].from = k
              /\ CallsOf(trace)[k].to = k + 1
              /\ CallsOf(trace)[k].req = last.frame.req
       /\ last.out = ErrMethodNotFound(last.frame.req.name)

C2_Witness ==
    /\ Answered /\ MiddlewareOnly /\ terminal = "conforming"
    /\ Unowned(last.frame.req)
    /\ Len(chain) = 5
    /\ Len(CallsOf(trace)) = 5
    /\ ~last.out.ok

\* ------------------------------------------------------------------------
\* C3: when downstream answers tools-list with Err(MethodNotFound), every
\* middleware handler answers tools-list with Ok and a list of exactly its
\* own tool(s); the MethodNotFound is not propagated.
\* ------------------------------------------------------------------------
ListReturned ==
    /\ MiddlewareReturned
    /\ last.frame.req.kind = "list"
    /\ Len(last.frame.got) = 1

OwnToolsOnly ==
    /\ last.out.ok
    /\ last.out.kind = "list"
    /\ last.out.tools = OwnTools(KindAt(last.frame.pos))

C3_ListSurvivesMethodNotFound ==
    ListReturned /\ ~last.frame.got[1].ok /\ last.frame.got[1].kind = "method_not_found"
    => OwnToolsOnly

\* ------------------------------------------------------------------------
\* C4: when downstream answers tools-list with anything that is not a
\* well-formed tools-list response (a protocol error other than
\* MethodNotFound, or an Ok response of another kind), every middleware
\* handler still answers Ok with its own tool(s) and no downstream tools.
\* ------------------------------------------------------------------------
C4_ListSurvivesOtherOutcomes ==
    ListReturned
    /\ \/ ~last.frame.got[1].ok /\ last.frame.got[1].kind # "method_not_found"
       \/ last.frame.got[1].ok /\ last.frame.got[1].kind # "list"
    => OwnToolsOnly

\* ------------------------------------------------------------------------
\* C5: a middleware handler lists downstream's tools first and its own
\* tool(s) after them, so over the terminal node the head of a chain lists
\* the tools of the last handler first and its own last; three handlers
\* with one tool each give exactly those three tools in that order.
\* ------------------------------------------------------------------------
RECURSIVE TerminalFirst(_)
TerminalFirst(handlers) ==
    IF handlers = <<>> THEN <<>>
    ELSE TerminalFirst(Tail(handlers)) \o OwnTools(Head(handlers))

C5_MergeOrder ==
    /\ ListReturned /\ last.frame.got[1].ok /\ last.frame.got[1].kind = "list"
       => /\ last.out.ok
          /\ last.out.kind = "list"
          /\ last.out.tools = last.frame.got[1].tools \o OwnTools(KindAt(last.frame.pos))
    /\ Answered /\ MiddlewareOnly /\ terminal = "conforming" /\ last.frame.req.kind = "list"
       => /\ last.out.ok
          /\ last.out.tools = TerminalFirst(chain)
    /\ Answered /\ terminal = "conforming" /\ last.frame.req.kind = "list"
         /\ chain = <<"pythagorean", "variance", "distance_calculator">>
       => last.out.tools = <<DistanceTool, VarianceTool, PythagoreanTool>>

C5_Witness ==
    /\ Answered /\ terminal = "conforming" /\ last.frame.req.kind = "list"
    /\ chain = <<"pythagorean", "variance", "distance_calculator">>
    /\ Len(last.out.tools) = 3
    /\ last.out.tools[1].name = "distance"
    /\ last.out.tools[3].name = "pythagorean"

\* ------------------------------------------------------------------------
\* C6: a middleware takes a value from a nested tools-call result only if
\* the error flag is not set, there is at least one content block, the
\* FIRST content block is inline text and that text parses; when a nested
\* result fails any of these, the synthetic tools-call returns an error
\* result. Stated for all five middleware; for route-optimizer a text that
\* parses is a number or the record of the distance or bearing tool.
\* ------------------------------------------------------------------------
ParsedTexts(kind) ==
    IF kind = "route_optimizer" THEN {"num", "padded_num", "geo_distance", "geo_bearing"}
    ELSE {"num", "padded_num"}

Acceptable(kind, result) ==
    /\ result.is_error # "true"
    /\ Len(result.content) > 0
    /\ result.content[1].type = "text_inline"
    /\ result.content[1].text.t \in ParsedTexts(kind)

SyntheticReturned ==
    MiddlewareReturned /\ Synthetic(KindAt(last.frame.pos), last.frame.req)

C6_ExtractionContract ==
    SyntheticReturned
    => \A j \in 1..Len(last.frame.got) :
           /\ last.frame.got[j].ok
           /\ last.frame.got[j].kind = "call"
           /\ ~Acceptable(KindAt(last.frame.pos), last.frame.got[j].result)
           => IsErrorResult(last.out)

\* ------------------------------------------------------------------------
\* C7: when a nested call of a synthetic computation comes back with
\* MethodNotFound, which is what happens when no handler after the
\* middleware owns the tool (a handler before it owning the tool does not
\* help), the synthetic tools-call returns Ok with an error-flagged result
\* whose text names the missing tool and says its provider must come later
\* in the chain; never a protocol-level error, never a numeric result.
\* ------------------------------------------------------------------------
OwnedAfter(pos, name) ==
    \E p \in (pos + 1)..Len(chain) : name \in OwnedNames(chain[p])

MissingToolResult(name) ==
    OkCall(error_result(Txt("not_found_must_come_after", 0, name)))

C7_MissingDependency ==
    SyntheticReturned
    => \A j \in 1..Len(last.frame.got) :
           /\ terminal = "conforming" /\ ~OwnedAfter(last.frame.pos, last.frame.calls[j].req.name)
              => ~last.frame.got[j].ok /\ last.frame.got[j].kind = "method_not_found"
           /\ ~last.frame.got[j].ok /\ last.frame.got[j].kind = "method_not_found"
              => last.out = MissingToolResult(last.frame.calls[j].req.name)

\* pythagorean behind math: square is owned only by a handler before it
C7_Witness ==
    /\ SyntheticReturned
    /\ chain = <<"math", "pythagorean">>
    /\ last.frame.pos = 2
    /\ Len(last.frame.got) = 1
    /\ ~last.frame.got[1].ok
    /\ last.out = MissingToolResult("square")

\* ------------------------------------------------------------------------
\* C8: a synthetic tool is all-or-nothing: it returns a result without the
\* error flag only when every nested call it issued came back with a usable
\* value; no default or placeholder stands in for a nested result.
\* ------------------------------------------------------------------------
Usable(kind, o, name) ==
    /\ o.ok
    /\ o.kind = "call"
    /\ o.result.is_error # "true"
    /\ \E b \in 1..Len(o.result.content) :
           /\ o.result.content[b].type = "text_inline"
           /\ o.result.content[b].text.t \in
                  (IF kind # "route_optimizer" THEN {"num", "padded_num"}
                   ELSE IF name = "distance" THEN {"geo_distance"}
                   ELSE {"geo_bearing"})

C8_AllOrNothing ==
    SyntheticReturned /\ last.out.ok /\ last.out.kind = "call" /\ ~IsErrorResult(last.out)
    => \A j \in 1..Len(last.frame.got) :
           Usable(KindAt(last.frame.pos), last.frame.got[j], last.frame.calls[j].req.name)

\* ------------------------------------------------------------------------
\* C9: every downstream request issued while a top-level request is being
\* served, at every nesting level, carries the RequestId and the Context of
\* that top-level request.
\* ------------------------------------------------------------------------
C9_SameIdAndContext ==
    /\ \A i \in 1..Len(stack) :
           /\ stack[i].id = stack[1].id
           /\ stack[i].ctx = stack[1].ctx
           /\ \A j \in 1..Len(stack[i].calls) :
                  /\ stack[i].calls[j].id = stack[1].id
                  /\ stack[i].calls[j].ctx = stack[1].ctx
    /\ Answered
       => \A k \in 1..Len(trace) :
              /\ trace[k].id = last.frame.id
              /\ trace[k].ctx = last.frame.ctx

\* stddev -> variance -> mean: the mean call two levels down
C9_Witness ==
    /\ Len(stack) = 3
    /\ stack[1].req.kind = "call" /\ stack[1].req.name = "stddev"
    /\ KindAt(1) = "stddev" /\ KindAt(2) = "variance" /\ KindAt(3) = "statistics"
    /\ stack[3].req.kind = "call" /\ stack[3].req.name = "mean"
    /\ stack[3].id = 2 /\ stack[3].ctx = "ctx_b"

\* ------------------------------------------------------------------------
\* C10: the handler at position i only ever invokes the handler at position
\* i + 1, when it delegates and when it issues nested calls: never itself,
\* never the head of the chain, never a position at or before its own.
\* ------------------------------------------------------------------------
C10_OnlyDownstream ==
    /\ \A i \in 1..Len(stack) :
           /\ stack[i].pos = i
           /\ \A j \in 1..Len(stack[i].calls) :
                  /\ stack[i].calls[j].from = i
                  /\ stack[i].calls[j].to = i + 1
    /\ \A k \in 1..Len(trace) :
           trace[k].ev = "call" => trace[k].to = trace[k].from + 1

\* The square_root call of stddev, issued from position 1 after the variance
\* call went two levels down
C10_Witness ==
    /\ Len(stack) = 4
    /\ stack[1].req.kind = "call" /\ stack[1].req.name = "standard_deviation"
    /\ Len(stack[1].calls) = 2
    /\ stack[1].calls[2].req.name = "square_root"
    /\ stack[4].pos = 4 /\ KindAt(4) = "math"
    /\ stack[4].req.name = "square_root"

\* ------------------------------------------------------------------------
\* C11: nested calls are strictly sequential: while a top-level request is
\* served every handler has at most one downstream request outstanding, and
\* a handler issues its next downstream call only after the previous one
\* has returned; there is no concurrent fan-out.
\* ------------------------------------------------------------------------
Outstanding(i) == Len(stack[i].calls) - Len(stack[i].got)

C11_StrictlySequential ==
    /\ \A i \in 1..Len(stack) :
           Outstanding(i) = (IF i < Len(stack) THEN 1 ELSE 0)
    /\ last.valid => Len(last.frame.calls) = Len(last.frame.got)
    /\ \A k \in 1..Len(trace) : \A m \in (k + 1)..Len(trace) :
           /\ trace[k].ev = "call"
           /\ trace[m].ev = "call"
           /\ trace[m].from = trace[k].from
           => \E r \in (k + 1)..(m - 1) :
                  /\ trace[r].ev = "ret"
                  /\ trace[r].from = trace[k].to
                  /\ trace[r].to = trace[k].from

\* distance-calculator has its third nested call outstanding, the first two
\* have returned
C11_Witness ==
    /\ Len(stack) = 2
    /\ KindAt(1) = "distance_calculator"
    /\ stack[1].req.kind = "call" /\ stack[1].req.name = "distance"
    /\ Len(stack[1].calls) = 3
    /\ Len(stack[1].got) = 2
    /\ stack[2].req.name = "add"

\* ------------------------------------------------------------------------
\* C12: a tools-call for a tool a middleware owns always returns
\* Ok(ToolsCall(result)), whatever downstream does: argument errors,
\* MethodNotFound or another protocol error of a nested call, and
\* error-flagged nested results all become an error result; none is
\* returned as a protocol-level Err.
\* ------------------------------------------------------------------------
NestedProtocolError(o) == ~o.ok

NestedErrorFlag(o) == o.ok /\ o.kind = "call" /\ o.result.is_error = "true"

RequiredFields(name) ==
    CASE name = "distance" -> {"x1", "y1", "x2", "y2"}
      [] name = "pythagorean" -> {"a", "b"}
      [] OTHER -> {}

RequiredArray(name) ==
    CASE name \in {"variance", "standard_deviation", "stddev"} -> "numbers"
      [] name = "analyze_route" -> "waypoints"
      [] OTHER -> "none"

WellShaped(req) ==
    /\ req.args.form = "obj"
    /\ RequiredFields(req.name) \subseteq DOMAIN req.args.num
    /\ req.args.arr = RequiredArray(req.name)

HasDiagnosticText(out) ==
    /\ Len(out.result.content) = 1
    /\ out.result.content[1].type = "text_inline"
    /\ out.result.content[1].text # NoText

C13_ArgumentErrors ==
    SyntheticReturned /\ ~WellShaped(last.frame.req)
    => IsErrorResult(last.out) /\ HasDiagnosticText(last.out)

\* ------------------------------------------------------------------------
\* C14: when a nested call fails in another way than MethodNotFound (a
\* different protocol error, an error-flagged nested result, a response of
\* an unexpected kind), the middleware returns an error result whose text
\* names the nested tool that failed and the cause.
\* ------------------------------------------------------------------------
NestedUnexpectedKind(o) == o.ok /\ o.kind # "call"

OtherNestedFailure(o) ==
    \/ NestedProtocolError(o) /\ o.kind # "method_not_found"
    \/ NestedErrorFlag(o)
    \/ NestedUnexpectedKind(o)

NamesTool(out, name) ==
    /\ HasDiagnosticText(out)
    /\ out.result.content[1].text.s = name

C14_NestedFailureNamesTool ==
    SyntheticReturned
    => \A j \in 1..Len(last.frame.got) :
           OtherNestedFailure(last.frame.got[j])
           => /\ IsErrorResult(last.out)
              /\ NamesTool(last.out, last.frame.calls[j].req.name)

\* ------------------------------------------------------------------------
\* C15: with stddev-middleware over variance-middleware over providers of
\* mean and square_root, a successful stddev call produces this downstream
\* trace: stddev issues variance(numbers); variance-middleware issues
\* mean(numbers) and mean returns before variance does; only after variance
\* has returned stddev issues square_root(variance); stddev issues exactly
\* these two nested calls and variance-middleware exactly one.
\* ------------------------------------------------------------------------
StdDevOverVariance ==
    /\ Len(chain) >= 2
    /\ chain[1] = "stddev"
    /\ chain[2] = "variance"

Succeeded ==
    /\ Answered
    /\ last.out.ok
    /\ last.out.kind = "call"
    /\ ~IsErrorResult(last.out)

CallEvent(k, from, name) ==
    /\ k \in 1..Len(trace)
    /\ trace[k].ev = "call"
    /\ trace[k].from = from
    /\ trace[k].req.kind = "call"
    /\ trace[k].req.name = name

RetEvent(k, to, name) ==
    /\ k \in 1..Len(trace)
    /\ trace[k].ev = "ret"
    /\ trace[k].to = to
    /\ trace[k].req.kind = "call"
    /\ trace[k].req.name = name

ReturnedValue(o) == o.result.content[1].text.v

C15_StdDevTrace ==
    StdDevOverVariance /\ Succeeded /\ Synthetic("stddev", last.frame.req)
    => /\ Len(last.frame.calls) = 2
       /\ last.frame.calls[1].req = ReqCall("variance", last.frame.req.args)
       /\ last.frame.calls[2].req =
              ReqCall("square_root", Obj([x |-> ReturnedValue(last.frame.got[1])]))
       /\ CallEvent(1, 1, "variance")
       /\ CallEvent(2, 2, "mean")
       /\ trace[2].req.args = last.frame.req.args
       /\ \E rm, rv \in 1..Len(trace) :
              /\ RetEvent(rm, 2, "mean")
              /\ RetEvent(rv, 1, "variance")
              /\ rm < rv
              /\ CallEvent(rv + 1, 1, "square_root")
              /\ \A k \in 1..rv : trace[k].ev = "call" /\ trace[k].from = 2 => k = 2
              /\ \A k \in 1..Len(trace) :
                     trace[k].ev = "call" /\ trace[k].from = 1 => k \in {1, rv + 1}

\* stddev of 2,4,4,4,5,5,7,9 over variance-middleware, statistics and math
C15_Witness ==
    /\ Succeeded
    /\ chain = <<"stddev", "variance", "statistics", "math">>
    /\ last.frame.req = ReqCall("stddev", NumbersObj(<<2, 4, 4, 4, 5, 5, 7, 9>>))
    /\ last.out = OkCall(success_result(NumText(2)))
    /\ Len(CallsOf(trace)) = 5

\* ------------------------------------------------------------------------
\* C16: a successful distance(x1,y1,x2,y2) call issues exactly four nested
\* calls, in this order: square of dx = x2 - x1, square of dy = y2 - y1,
\* add of the two returned squares, square_root of the returned sum; dx and
\* dy are computed locally and the result text is the value square_root
\* returned.
\* ------------------------------------------------------------------------
SyntheticSucceeded(kind) ==
    /\ SyntheticReturned
    /\ KindAt(last.frame.pos) = kind
    /\ ~IsErrorResult(last.out)

\* The number a nested result carries in its inline text
NumericValue(o) ==
    LET inline == {i \in 1..Len(o.result.content) :
                       o.result.content[i].type = "text_inline"}
    IN o.result.content[Min(inline)].text.v

NestedRequests == [j \in 1..Len(last.frame.calls) |-> last.frame.calls[j].req]

Returned(j) == NumericValue(last.frame.got[j])

C16_DistanceTrace ==
    SyntheticSucceeded("distance_calculator")
    => LET a == last.frame.req.args.num IN
       /\ NestedRequests =
              <<ReqCall("square", Obj([x |-> a.x2 - a.x1])),
                ReqCall("square", Obj([x |-> a.y2 - a.y1])),
                ReqCall("add", Obj([a |-> Returned(1), b |-> Returned(2)])),
                ReqCall("square_root", Obj([x |-> Returned(3)]))>>
       /\ last.out = OkCall(success_result(NumText(Returned(4))))

\* distance(3,4,0,4) over math: dx = -3 and dy = 0
C16_Witness ==
    /\ SyntheticSucceeded("distance_calculator")
    /\ chain = <<"distance_calculator", "math">>
    /\ last.frame.req.args.num = [x1 |-> 3, y1 |-> 4, x2 |-> 0, y2 |-> 4]
    /\ NestedRequests[1] = ReqCall("square", Obj([x |-> -3]))
    /\ NestedRequests[3] = ReqCall("add", Obj([a |-> 9, b |-> 0]))
    /\ last.out = OkCall(success_result(NumText(3)))

\* ------------------------------------------------------------------------
\* C17: a successful pythagorean(a,b) call issues exactly three nested
\* calls, in this order: square(a), square(b), square_root(sum), where sum
\* is the two returned squares added locally (no add call is issued); the
\* result text is the value square_root returned.
\* ------------------------------------------------------------------------
C17_PythagoreanTrace ==
    SyntheticSucceeded("pythagorean")
    => /\ NestedRequests =
              <<ReqCall("square", Obj([x |-> last.frame.req.args.num.a])),
                ReqCall("square", Obj([x |-> last.frame.req.args.num.b])),
                ReqCall("square_root", Obj([x |-> Returned(1) + Returned(2)]))>>
       /\ last.out = OkCall(success_result(NumText(Returned(3))))

\* pythagorean(3,4) over math
C17_Witness ==
    /\ SyntheticSucceeded("pythagorean")
    /\ chain = <<"pythagorean", "math">>
    /\ last.frame.req.args.num = [a |-> 3, b |-> 4]
    /\ NestedRequests[3] = ReqCall("square_root", Obj([x |-> 25]))
    /\ last.out = OkCall(success_result(NumText(5)))

\* ------------------------------------------------------------------------
\* C18: a successful analyze_route call with n >= 2 waypoints issues exactly
\* 2(n-1) nested calls: for each consecutive pair, in order, distance and
\* then bearing, both with the coordinates of that pair, all calls of a pair
\* before any call of the next; the result has exactly n-1 segments and a
\* total_distance_km that is the sum of the segments' distance_km (with two
\* waypoints, the distance of the single segment).
\* ------------------------------------------------------------------------
PairArgs(from, to) ==
    Obj([lat1 |-> from[1], lon1 |-> from[2], lat2 |-> to[1], lon2 |-> to[2]])

RouteResult == last.out.result.content[1].text

C18_RouteTrace ==
    SyntheticSucceeded("route_optimizer")
    => LET waypoints == last.frame.req.args.waypoints
           n == Len(waypoints)
       IN /\ n >= 2
          /\ Len(NestedRequests) = 2 * (n - 1)
          /\ \A i \in 1..(n - 1) :
                 /\ NestedRequests[2 * i - 1] =
                        ReqCall("distance", PairArgs(waypoints[i], waypoints[i + 1]))
                 /\ NestedRequests[2 * i] =
                        ReqCall("bearing", PairArgs(waypoints[i], waypoints[i + 1]))
          /\ Len(RouteResult.segs) = n - 1
          /\ \A i \in 1..(n - 1) :
                 /\ RouteResult.segs[i].from = waypoints[i]
                 /\ RouteResult.segs[i].to = waypoints[i + 1]
          /\ RouteResult.v =
                 SumSeq([i \in 1..(n - 1) |-> RouteResult.segs[i].distance_km])
          /\ n = 2 => RouteResult.v = RouteResult.segs[1].distance_km

\* Three waypoints over the geospatial providers: two segments of positive
\* length
C18_Witness ==
    /\ SyntheticSucceeded("route_optimizer")
    /\ chain = <<"route_optimizer", "geo_distance", "geo_bearing">>
    /\ Len(last.frame.req.args.waypoints) = 3
    /\ Len(NestedRequests) = 4
    /\ Len(RouteResult.segs) = 2
    /\ RouteResult.segs[1].distance_km > 0
    /\ RouteResult.v = RouteResult.segs[1].distance_km + RouteResult.segs[2].distance_km

\* ------------------------------------------------------------------------
\* C19: composed over the math and statistics providers, the numeric
\* middleware tools return the value of the formula evaluated directly:
\* distance = sqrt((x2-x1)^2 + (y2-y1)^2), pythagorean = sqrt(a^2 + b^2),
\* variance = mean of the squared deviations from the mean, stddev =
\* sqrt(variance); distance(0,0,3,4) = 5, pythagorean(3,4) = 5,
\* variance(2,4,4,4,5,5,7,9) = 4 and stddev of the same numbers = 2.
\* The inputs are those on which f64 arithmetic is exact, so equality up to
\* a tolerance is equality.
\* ------------------------------------------------------------------------
\* r is the non-negative square root of x
IsSqrtOf(r, x) == r >= 0 /\ r * r = x

\* v is the mean of the squared deviations of q from its mean: with n the
\* length and s the sum of q, v = (sum of (x - s/n)^2) / n, cleared of
\* divisions
IsVarianceOf(v, q) ==
    LET n == Len(q)
        s == SumSeq(q)
    IN n * n * n * v = SumSeq([i \in 1..n |-> (n * q[i] - s) * (n * q[i] - s)])

\* The number in the text of a success result
ResultNumber == last.out.result.content[1].text.v

IsNumberResult ==
    /\ HasDiagnosticText(last.out)
    /\ last.out.result.content[1].text.t = "num"

OverProviders(kind) == SyntheticSucceeded(kind) /\ terminal = "conforming"

C19_ComposedEqualsFormula ==
    /\ OverProviders("distance_calculator")
       => LET a == last.frame.req.args.num IN
          /\ IsNumberResult
          /\ IsSqrtOf(ResultNumber, (a.x2 - a.x1) * (a.x2 - a.x1)
                                      + (a.y2 - a.y1) * (a.y2 - a.y1))
    /\ OverProviders("pythagorean")
       => LET a == last.frame.req.args.num IN
          /\ IsNumberResult
          /\ IsSqrtOf(ResultNumber, a.a * a.a + a.b * a.b)
    /\ OverProviders("variance")
       => /\ IsNumberResult
          /\ IsVarianceOf(ResultNumber, last.frame.req.args.numbers)
    /\ OverProviders("stddev")
       => /\ IsNumberResult
          /\ ResultNumber >= 0
          /\ IsVarianceOf(ResultNumber * ResultNumber, last.frame.req.args.numbers)
    /\ OverProviders("distance_calculator")
         /\ last.frame.req.args.num = [x1 |-> 0, y1 |-> 0, x2 |-> 3, y2 |-> 4]
       => ResultNumber = 5
    /\ OverProviders("pythagorean") /\ last.frame.req.args.num = [a |-> 3, b |-> 4]
       => ResultNumber = 5
    /\ OverProviders("variance")
         /\ last.frame.req.args.numbers = <<2, 4, 4, 4, 5, 5, 7, 9>>
       => ResultNumber = 4
    /\ OverProviders("stddev")
         /\ last.frame.req.args.numbers = <<2, 4, 4, 4, 5, 5, 7, 9>>
       => ResultNumber = 2

\* stddev of 2,4,4,4,5,5,7,9 answered with 2 at the head of the chain
C19_Witness ==
    /\ Answered
    /\ OverProviders("stddev")
    /\ last.frame.req.args.numbers = <<2, 4, 4, 4, 5, 5, 7, 9>>
    /\ ResultNumber = 2

\* ------------------------------------------------------------------------
\* C20: idempotence, no hidden state: the same tools-call or tools-list
\* request issued twice against an unchanged chain gets identical responses
\* and causes identical sequences of downstream requests; no handler keeps
\* state from one request that influences a later one.
\* ------------------------------------------------------------------------
C20_Idempotent ==
    Answered /\ previous.valid
    => /\ last.out = previous.out
       /\ DownstreamRequests(trace) = previous.calls

\* stddev asked twice over variance-middleware, statistics and math
C20_Witness ==
    /\ Answered
    /\ previous.valid
    /\ chain = <<"stddev", "variance", "statistics", "math">>
    /\ last.frame.req = ReqCall("stddev", NumbersObj(<<2, 4, 4, 4, 5, 5, 7, 9>>))
    /\ Len(previous.calls) = 5
    /\ previous.out = OkCall(success_result(NumText(2)))

\* ------------------------------------------------------------------------
\* C21: handle_notification and handle_response of every middleware are
\* pure pass-through: each invocation makes exactly one call of the same
\* operation on the downstream reference, with the same ctx and the same
\* message, makes no handle_request, and never drops or alters the message.
\* ------------------------------------------------------------------------
\* The handler at position i has run: the message is past it or delivered
HasRun(i) ==
    /\ i \in 1..Len(chain)
    /\ \/ relay.pos > i
       \/ relay.pos = 0 /\ relay.log # <<>>

InvocationsOf(i) == SelectSeq(relay.log, LAMBDA e : e.from = i)

C21_PassThrough ==
    /\ \A i \in 1..Len(chain) :
           chain[i] \in Middleware /\ HasRun(i)
           => /\ Len(InvocationsOf(i)) = 1
              /\ InvocationsOf(i)[1].to = i + 1
              /\ InvocationsOf(i)[1].op = relay.log[1].op
              /\ InvocationsOf(i)[1].ctx = relay.log[1].ctx
              /\ InvocationsOf(i)[1].message = relay.log[1].message
    /\ relay.pos > 0 \/ relay.log # <<>>
       => /\ stack = <<>>
          /\ trace = <<>>
          /\ relay.pos # 0 => /\ relay.op = (IF relay.log = <<>> THEN relay.op
                                              ELSE relay.log[1].op)
                              /\ Len(relay.log) = relay.pos - 1
          /\ relay.pos = 0 => Len(relay.log) = Len(chain)

\* A cancelled notification handed down by five middleware to the terminal
C21_Witness ==
    /\ relay.pos = 0
    /\ Len(chain) = 5
    /\ Len(relay.log) = 5
    /\ relay.log[5].op = "handle_notification"
    /\ relay.log[5].message.kind = "cancelled"
    /\ relay.log[5].ctx = "ctx_b"
    /\ relay.log[5].to = 6

\* ------------------------------------------------------------------------
\* Leaf provider contract

LeafReturned ==
    /\ last.valid
    /\ KindAt(last.frame.pos) \in LeafKinds
    /\ last.frame.req.kind = "call"
    /\ last.frame.req.name \in OwnedNames(KindAt(last.frame.pos))

LeafFields(name) ==
    CASE name \in {"add", "subtract", "multiply", "divide"} -> {"a", "b"}
      [] name \in {"square", "square_root"} -> {"x"}
      [] name = "power" -> {"base", "exponent"}
      [] name \in {"distance", "bearing"} -> {"lat1", "lon1", "lat2", "lon2"}
      [] name = "point_in_polygon" -> {"lat", "lon"}
      [] OTHER -> {}

LeafArray(name) ==
    CASE name \in {"mean", "sum", "count"} -> "numbers"
      [] name = "point_in_polygon" -> "polygon"
      [] OTHER -> "none"

ValidArguments(req) ==
    /\ req.args.form = "obj"
    /\ LeafFields(req.name) \subseteq DOMAIN req.args.num
    /\ LeafArray(req.name) # "none" => req.args.arr = LeafArray(req.name)

InRange(lat, lon) == lat >= -90 /\ lat <= 90 /\ lon >= -180 /\ lon <= 180

DomainViolation(req) ==
    LET a == req.args.num
        name == req.name
    IN CASE name = "divide" -> a.b = 0
         [] name = "square_root" -> a.x < 0
         [] name = "mean" -> req.args.numbers = <<>>
         [] name \in {"distance", "bearing"} ->
                ~InRange(a.lat1, a.lon1) \/ ~InRange(a.lat2, a.lon2)
         [] name = "point_in_polygon" ->
                \/ Len(req.args.waypoints) < 3
                \/ ~InRange(a.lat, a.lon)
                \/ \E i \in 1..Len(req.args.waypoints) :
                       ~InRange(req.args.waypoints[i][1], req.args.waypoints[i][2])
         [] OTHER -> FALSE

OneTextResult(out) ==
    /\ out.result.is_error # "true"
    /\ Len(out.result.content) = 1
    /\ out.result.content[1].type = "text_inline"

NestedFailed(kind, o, name) ==
    \/ NestedProtocolError(o)
    \/ NestedErrorFlag(o)
    \/ ~Usable(kind, o, name)

NoCallAfterFailure(f) ==
    \A j \in 1..Len(f.got) :
        NestedFailed(KindAt(f.pos), f.got[j], f.calls[j].req.name) => Len(f.calls) = j

C23_AbortOnFirstFailure ==
    /\ \A i \in 1..Len(stack) :
           KindAt(stack[i].pos) \in Middleware /\ Synthetic(KindAt(stack[i].pos), stack[i].req)
           => NoCallAfterFailure(stack[i])
    /\ SyntheticReturned
       => /\ NoCallAfterFailure(last.frame)
          /\ (\E j \in 1..Len(last.frame.got) :
                  NestedFailed(KindAt(last.frame.pos), last.frame.got[j],
                               last.frame.calls[j].req.name))
             => IsErrorResult(last.out)

\* ------------------------------------------------------------------------
\* C24: termination.  Over a terminal node and leaf providers that always
\* respond every top-level handle_request eventually returns; the number of
\* handle_request invocations in flight never exceeds the length of the
\* chain (its handlers and its terminal node); and once a nested call has
\* entered a downstream that never returns, the top-level request never
\* returns either.
\* ------------------------------------------------------------------------
ChainLength == Len(chain) + 1

Stalled == stack # <<>> /\ KindAt(Top.pos) = "terminal" /\ terminal = "stalling"

C24_Termination ==
    /\ [](Len(stack) <= ChainLength)
    /\ (stack # <<>> /\ terminal # "stalling") ~> (stack = <<>>)
    /\ [][Stalled => Stalled']_vars

\* A request that went through every handler of a five-handler chain down to
\* the terminal node has returned
C24_Witness ==
    /\ Answered
    /\ terminal = "conforming"
    /\ Len(chain) = 5
    /\ \E k \in 1..Len(trace) : trace[k].ev = "call" /\ trace[k].to = ChainLength

\* ------------------------------------------------------------------------
\* C25: the tools-list merge never deduplicates or overrides.  The merged
\* list is as long as the downstream list plus the handler's own tools, every
\* downstream tool and every own tool is in it with its own schema, also when
\* names collide: distance-calculator in front of geospatial-distance lists
\* two tools named 'distance'.
\* ------------------------------------------------------------------------
Named(tools, name) == {i \in 1..Len(tools) : tools[i].name = name}

C25_NoDeduplication ==
    /\ ListReturned /\ last.frame.got[1].ok /\ last.frame.got[1].kind = "list"
       => LET down == last.frame.got[1].tools
              own == OwnTools(KindAt(last.frame.pos))
              merged == last.out.tools
          IN /\ Len(merged) = Len(down) + Len(own)
             /\ \A i \in 1..Len(down) : merged[i] = down[i]
             /\ \A k \in 1..Len(own) : merged[Len(down) + k] = own[k]
    /\ Answered /\ last.frame.req.kind = "list" /\ terminal = "conforming"
         /\ chain = <<"distance_calculator", "geo_distance">>
       => /\ Cardinality(Named(last.out.tools, "distance")) = 2
          /\ {last.out.tools[i].schema : i \in Named(last.out.tools, "distance")}
                 = {"lat1,lon1,lat2,lon2", "x1,y1,x2,y2"}

C25_Witness ==
    /\ Answered /\ last.frame.req.kind = "list" /\ terminal = "conforming"
    /\ chain = <<"distance_calculator", "geo_distance">>
    /\ Len(last.out.tools) = 2
    /\ last.out.tools[1].name = last.out.tools[2].name
    /\ last.out.tools[1].schema # last.out.tools[2].schema

\* ------------------------------------------------------------------------
\* C26: a domain violation the middleware can see in its own arguments is
\* reported before any nested call: variance of an empty array and
\* analyze_route with fewer than 2 waypoints return an error-flagged result
\* and no request has gone downstream.
\* ------------------------------------------------------------------------
LocalViolation(kind, req) ==
    /\ req.args.form = "obj"
    /\ \/ kind = "variance" /\ req.args.arr = "numbers" /\ req.args.numbers = <<>>
       \/ kind = "route_optimizer" /\ req.args.arr = "waypoints"
              /\ Len(req.args.waypoints) < 2

C26_LocalViolationFirst ==
    /\ SyntheticReturned /\ LocalViolation(KindAt(last.frame.pos), last.frame.req)
       => /\ IsErrorResult(last.out)
          /\ last.frame.calls = <<>>
    /\ \A i \in 1..Len(stack) :
           LocalViolation(KindAt(stack[i].pos), stack[i].req)
               /\ Synthetic(KindAt(stack[i].pos), stack[i].req)
           => stack[i].calls = <<>>

C26_Witness ==
    /\ Answered /\ SyntheticReturned
    /\ KindAt(last.frame.pos) = "route_optimizer"
    /\ chain = <<"route_optimizer", "geo_distance", "geo_bearing">>
    /\ Len(last.frame.req.args.waypoints) = 1
    /\ IsErrorResult(last.out)
    /\ Len(trace) = 1

\* ------------------------------------------------------------------------
\* C27: a tools-call on an owned tool whose arguments are missing or
\* malformed is rejected by the middleware itself: it returns an error
\* result and sends no request downstream.  Claimed for all five middleware.
\* ------------------------------------------------------------------------
C27_RejectedLocally ==
    /\ SyntheticReturned /\ ~WellShaped(last.frame.req)
       => /\ IsErrorResult(last.out)
          /\ last.frame.calls = <<>>
    /\ \A i \in 1..Len(stack) :
           /\ KindAt(stack[i].pos) \in Middleware
           /\ Synthetic(KindAt(stack[i].pos), stack[i].req)
           /\ ~WellShaped(stack[i].req)
           => stack[i].calls = <<>>

\* ------------------------------------------------------------------------
\* C28: name shadowing.  A tools-call on a name that a handler owns is
\* answered by the first handler that owns it and never passed further down
\* under that name.  In route-optimizer -> distance-calculator ->
\* geospatial-distance the nested 'distance' call of analyze_route is
\* answered by distance-calculator, which expects x1, y1, x2, y2 and returns
\* an error result, so analyze_route fails.
\* ------------------------------------------------------------------------
KeepsOwnName(f) ==
    f.req.kind = "call" /\ f.req.name \in OwnedNames(KindAt(f.pos))
    => \A c \in 1..Len(f.calls) :
           ~(f.calls[c].req.kind = "call" /\ f.calls[c].req.name = f.req.name)

ShadowedChain == <<"route_optimizer", "distance_calculator", "geo_distance", "geo_bearing">>

ShadowedRoute ==
    /\ chain = ShadowedChain
    /\ terminal = "conforming"
    /\ Answered
    /\ last.frame.req.kind = "call"
    /\ last.frame.req.name = "analyze_route"
    /\ last.frame.req.args.form = "obj"
    /\ last.frame.req.args.arr = "waypoints"
    /\ Len(last.frame.req.args.waypoints) >= 2

C28_NameShadowing ==
    /\ \A i \in 1..Len(stack) : KeepsOwnName(stack[i])
    /\ last.valid => KeepsOwnName(last.frame)
    /\ ShadowedRoute
       => /\ IsErrorResult(last.out)
          /\ Len(CallsOf(trace)) = 1
          /\ \A k \in 1..Len(trace) :
                 /\ trace[k].ev = "call" => trace[k].to = 2 /\ trace[k].req.name = "distance"
                 /\ trace[k].ev = "ret" /\ trace[k].from = 2 => IsErrorResult(trace[k].out)

C28_Witness ==
    /\ ShadowedRoute
    /\ IsErrorResult(last.out)
    /\ Len(trace) = 3
    /\ trace[2].ev = "ret" /\ trace[2].from = 2 /\ IsErrorResult(trace[2].out)

\* ------------------------------------------------------------------------
\* C29: list/dispatch consistency.  The names a handler adds to tools-list
\* are exactly the names it answers in tools-call: stddev-middleware lists
\* and answers standard_deviation and stddev with the same computation, math
\* its seven tools, statistics its three; every other name is passed
\* downstream (a leaf declines it).
\* ------------------------------------------------------------------------
DeclaredNames(kind) ==
    CASE kind = "distance_calculator" -> {"distance"}
      [] kind = "pythagorean" -> {"pythagorean"}
      [] kind = "variance" -> {"variance"}
      [] kind = "stddev" -> {"standard_deviation", "stddev"}
      [] kind = "route_optimizer" -> {"analyze_route"}
      [] kind = "math" ->
             {"add", "subtract", "multiply", "divide", "square", "square_root", "power"}
      [] kind = "statistics" -> {"mean", "sum", "count"}
      [] kind = "geo_distance" -> {"distance"}
      [] kind = "geo_bearing" -> {"bearing"}
      [] kind = "geo_point_in_polygon" -> {"point_in_polygon"}
      [] OTHER -> {}

HandlerReturned == last.valid /\ KindAt(last.frame.pos) \in Middleware \cup LeafKinds

\* the names a handler appended to the downstream list
Contributed(f, out) ==
    {out.tools[i].name : i \in (Len(f.got[1].tools) + 1)..Len(out.tools)}

PassedDown(f) == Len(f.calls) >= 1 /\ f.calls[1].req = f.req

OtherName(name) == IF name = "stddev" THEN "standard_deviation" ELSE "stddev"

C29_ListDispatchConsistency ==
    /\ HandlerReturned /\ last.frame.req.kind = "list" /\ Len(last.frame.got) = 1
         /\ last.frame.got[1].ok /\ last.frame.got[1].kind = "list"
       => /\ last.out.ok
          /\ last.out.kind = "list"
          /\ Contributed(last.frame, last.out) = DeclaredNames(KindAt(last.frame.pos))
    /\ HandlerReturned /\ last.frame.req.kind = "call"
       => IF last.frame.req.name \in DeclaredNames(KindAt(last.frame.pos))
          THEN ~PassedDown(last.frame)
          ELSE /\ PassedDown(last.frame)
               /\ Len(last.frame.calls) = 1
               /\ last.out = last.frame.got[1]
    /\ \A i \in 1..Len(stack) :
           /\ KindAt(stack[i].pos) = "stddev"
           /\ stack[i].req.kind = "call"
           /\ stack[i].req.name \in DeclaredNames("stddev")
           => StdDev_handle_request([stack[i] EXCEPT !.req.name = OtherName(@)])
                  = StdDev_handle_request(stack[i])

\* The alias has been answered with a number computed from nested calls
C29_Witness ==
    /\ Answered
    /\ KindAt(last.frame.pos) = "stddev"
    /\ last.frame.req.name = "stddev"
    /\ Len(last.frame.calls) = 2
    /\ last.out.ok
    /\ ~IsErrorResult(last.out)

\* ------------------------------------------------------------------------
\* C30: on a successful merge the tools-list response of a middleware
\* carries the next_cursor and the meta of the downstream response
\* unchanged, so a cursor set at the end of the chain reaches the client
\* whatever middleware stand in front.
\* ------------------------------------------------------------------------
C30_CursorPreserved ==
    /\ ListReturned /\ last.frame.got[1].ok /\ last.frame.got[1].kind = "list"
       => /\ last.out.ok
          /\ last.out.kind = "list"
          /\ last.out.next_cursor = last.frame.got[1].next_cursor
          /\ last.out.meta = last.frame.got[1].meta
    /\ Answered /\ MiddlewareOnly /\ terminal = "listing" /\ last.frame.req.kind = "list"
       => /\ last.out.ok
          /\ last.out.next_cursor = "cursor1"
          /\ last.out.meta = "meta1"

====
